---------------------------- MODULE Spec2Model ----------------------------
(***************************************************************************)
(* A model of sfdata_wrangler: the cleaning of raw SFMuni APC/AVL records  *)
(* (SFMuniDataHelper.processRawData), the monthly aggregation levels       *)
(* (calcMonthlyAverages, aggregateTrips, calculateRouteTotals,             *)
(* calculateStopTotals, calculateSystemTotals), the GTFS schedule          *)
(* expansion (GTFSHelper) and the driver script that runs the steps.       *)
(*                                                                         *)
(* Conventions.  Times in decimal minutes (DWELL, HEADWAY, ...) are kept   *)
(* in hundredths of a minute, the resolution of the code's round(x, 2).    *)
(* A nullable value (NaN / NaT) is the empty tuple <<>> for null and <<v>> *)
(* for the value v.  A string of decimal digits is a tuple of digits.      *)
(***************************************************************************)
EXTENDS Integers, Sequences, FiniteSets, TLC

VARIABLES
    dataset,      \* the input files: a family of raw STP rows, or "gtfs" schedules
    store,        \* the 'sample' table of the cleaned HDF5 store (rows in append order)
    cpc,          \* processRawData: "idle", "reading" or "failed"
    rowsWritten,  \* processRawData: rows written by the current call
    chunk,        \* processRawData: the chunk read last (<<>>: none yet)
    tables,       \* the aggregated tables of the store, by key (<<>>: not in the store)
    apc,          \* aggregation: "idle", "failed" or the method that is running
    months,       \* aggregation: the months still to process
    split_tod,    \* aggregation: keep the time-of-day periods separate
    call,         \* a call of a GTFS helper function: its arguments and its outcome
    gtfs,         \* the trip-stop table processFiles writes (<<>>: not in the store)
    gpc,          \* processFiles: "idle", "running" or "failed"
    work,         \* processFiles: the service periods still to convert, <<file, k>>
    startIndex,   \* processFiles: the index of the next row
    argv,         \* driver: the steps named on the command line (sys.argv[1:])
    dpc,          \* driver: "idle", "start", the step at hand, "cleaning", "end",
                  \* "complete", "usage", "rejected" or "aborted"
    started,      \* driver: the steps started, in order
    finished,     \* driver: the steps that reported they finished, in order
    exitcode,     \* driver: <<>> while the script runs, <<status>> once it has ended
    filesLeft     \* driver: the raw files the clean step has still to convert

cleanVars == <<dataset, store, cpc, rowsWritten, chunk>>

aggVars == <<tables, apc, months, split_tod>>

gtfsVars == <<gtfs, gpc, work, startIndex>>

driverVars == <<argv, dpc, started, finished, exitcode, filesLeft>>

vars == <<cleanVars, aggVars, call, gtfsVars, driverVars>>

\* ------------------------------------------------------------------ bounds

\* rows the reader yields per chunk (CHUNKSIZE is 100000 in the code)
MaxChunkRows == 2

\* rows the 'sample' table may hold
MaxStoreRows == 3

\* --------------------------------------------------------- general helpers

RECURSIVE SumSeq(_)
SumSeq(s) == IF s = <<>> THEN 0 ELSE Head(s) + SumSeq(Tail(s))

\* all tuples over S of length 0..n
SeqsUpTo(S, n) == UNION {[1..k -> S] : k \in 0..n}

\* ------------------------------------------------ digit strings and clocks

RECURSIVE Digits(_)
\* str(n) for n >= 0, as a tuple of digits
Digits(n) == IF n < 10 THEN <<n>> ELSE Append(Digits(n \div 10), n % 10)

RECURSIVE Zeros(_)
Zeros(k) == IF k <= 0 THEN <<>> ELSE <<0>> \o Zeros(k - 1)

\* "{0:0>w}".format(n): right-aligned, filled with '0' up to width w, never cut
ZeroFill(n, w) == Zeros(w - Len(Digits(n))) \o Digits(n)

\* the two-digit number at positions i, i+1 of a digit string
Num2(s, i) == 10 * s[i] + s[i + 1]

EndsWith60(s) == Len(s) >= 2 /\ s[Len(s) - 1] = 6 /\ s[Len(s)] = 0

\* --------------------------------------------------------------- calendar

IsLeap(y) == (y % 4 = 0 /\ y % 100 # 0) \/ y % 400 = 0

DaysInMonth(y, m) ==
    IF m = 2 THEN (IF IsLeap(y) THEN 29 ELSE 28)
    ELSE IF m \in {4, 6, 9, 11} THEN 30 ELSE 31

\* a timestamp is [y, m, d, hh, mi, ss]; NaT is the timestamp of year 0
NaT == [y |-> 0, m |-> 0, d |-> 0, hh |-> 0, mi |-> 0, ss |-> 0]

\* ts + pd.DateOffset(days=1)
AddDay(ts) ==
    IF ts.d < DaysInMonth(ts.y, ts.m) THEN [ts EXCEPT !.d = ts.d + 1]
    ELSE IF ts.m < 12 THEN [ts EXCEPT !.d = 1, !.m = ts.m + 1]
    ELSE [ts EXCEPT !.d = 1, !.m = 1, !.y = ts.y + 1]

\* days from 2000-03-01 to the civil date (proleptic Gregorian)
DayNumber(ts) ==
    LET yy == IF ts.m <= 2 THEN ts.y - 1 ELSE ts.y
        mm == IF ts.m <= 2 THEN ts.m + 9 ELSE ts.m - 3
    IN  365 * yy + (yy \div 4) - (yy \div 100) + (yy \div 400)
            + ((153 * mm + 2) \div 5) + ts.d - 1 - 730485

\* seconds of the timestamp on the time line
EpochSeconds(ts) == DayNumber(ts) * 86400 + ts.hh * 3600 + ts.mi * 60 + ts.ss

TsLess(a, b) == EpochSeconds(a) < EpochSeconds(b)

\* (a - b).seconds of a Python timedelta: the seconds within the day, days dropped
DeltaSeconds(a, b) == (EpochSeconds(a) - EpochSeconds(b)) % 86400

\* (a - b).total_seconds()
DeltaTotalSeconds(a, b) == EpochSeconds(a) - EpochSeconds(b)

\* round(seconds / 60.0, 2), in hundredths of a minute (seconds >= 0)
RoundMinutes(seconds) == (10 * seconds + 3) \div 6

\* strptime's %y: 69..99 are 1969..1999, 00..68 are 2000..2068
Year2(yy) == IF yy >= 69 THEN 1900 + yy ELSE 2000 + yy

ValidDate(y, m, d) == m \in 1..12 /\ d >= 1 /\ d <= DaysInMonth(y, m)

\* pd.to_datetime(s, format="%m%d%y"): <<ts>>, or <<>> when s does not parse
ParseDate(s) ==
    IF Len(s) # 6 THEN <<>>
    ELSE LET y == Year2(Num2(s, 5)) m == Num2(s, 1) d == Num2(s, 3)
         IN  IF ValidDate(y, m, d)
             THEN <<[y |-> y, m |-> m, d |-> d, hh |-> 0, mi |-> 0, ss |-> 0]>>
             ELSE <<>>

\* pd.to_datetime(s, format="%m%d%y%H%M%S")
ParseDateHMS(s) ==
    IF Len(s) # 12 THEN <<>>
    ELSE LET y == Year2(Num2(s, 5)) m == Num2(s, 1) d == Num2(s, 3)
             hh == Num2(s, 7) mi == Num2(s, 9) ss == Num2(s, 11)
         IN  IF ValidDate(y, m, d) /\ hh < 24 /\ mi < 60 /\ ss < 60
             THEN <<[y |-> y, m |-> m, d |-> d, hh |-> hh, mi |-> mi, ss |-> ss]>>
             ELSE <<>>

\* pd.to_datetime(s, format="%m%d%y%H%M")
ParseDateHM(s) ==
    IF Len(s) # 10 THEN <<>>
    ELSE LET y == Year2(Num2(s, 5)) m == Num2(s, 1) d == Num2(s, 3)
             hh == Num2(s, 7) mi == Num2(s, 9)
         IN  IF ValidDate(y, m, d) /\ hh < 24 /\ mi < 60
             THEN <<[y |-> y, m |-> m, d |-> d, hh |-> hh, mi |-> mi, ss |-> 0]>>
             ELSE <<>>


\* ------------------------------------------------------------ stop names

RECURSIVE CountSub(_, _)
\* Python's s.count(pat): the non-overlapping occurrences of pat in s
CountSub(s, pat) ==
    IF Len(s) < Len(pat) THEN 0
    ELSE IF SubSeq(s, 1, Len(pat)) = pat
         THEN 1 + CountSub(SubSeq(s, Len(pat) + 1, Len(s)), pat)
         ELSE CountSub(Tail(s), pat)

EolMarker == <<"-", " ", "E", "O", "L">>

\* ------------------------------------------- processRawData: one raw row

\* PassesFilters without the revenue-service filter: C11 must tell them apart
PassesFiltersAnyDir(r) ==
    /\ r.RDBRDNGS < 1000
    /\ r.NEXTTRIP # 999
    /\ r.QC201 <= 20
    /\ r.ROUTE > 0
    /\ r.QSTOP < 9999

\* the filters of a chunk, in the code's order; a failing row is dropped
PassesFilters(r) ==
    /\ r.RDBRDNGS < 1000
    /\ r.NEXTTRIP # 999
    /\ r.DIR < 2
    /\ r.QC201 <= 20
    /\ r.ROUTE > 0
    /\ r.QSTOP < 9999

\* the filters applied before the types are forced: RDBRDNGS and NEXTTRIP
PassesEarlyFilters(r) ==
    /\ r.RDBRDNGS < 1000
    /\ r.NEXTTRIP # 999

\* chunk[colnames[i]].astype(coltypes[i]) for i in range(len(chunk.columns.names)):
\* columns.names of a plain column index is [None], so the loop runs for
\* i = 0 alone and forces SEQ to int64; a blank SEQ (read as NaN, named in
\* the NA field of the raw row) does not convert
Coerces(r) == "SEQ" \notin r.NA

\* LoadArr with boardings and alightings exchanged: C6 must tell them apart
LoadArrSwapped(r) == r.LOAD_DEP + r.ON - r.OFF

LoadArr(r) == r.LOAD_DEP - r.ON + r.OFF

\* a scheduled time point has a schedule time
TimePoint(r) == IF r.TIMESTOP_S_INT < 9999 THEN 1 ELSE 0

\* OnTime computed at every stop: C21 must tell them apart
OnTimeAnywhere(r, limit) == IF r.TIMESTOP_DEV < limit THEN <<1>> ELSE <<0>>

\* ONTIME2 / ONTIME10: null unless a time point; limit in hundredths of a minute
OnTime(r, limit) ==
    IF TimePoint(r) = 1 THEN (IF r.TIMESTOP_DEV < limit THEN <<1>> ELSE <<0>>)
    ELSE <<>>

EolFlag(r) == CountSub(r.STOPNAME, EolMarker)

\* DwellAdj without the first-stop case: C5 must tell them apart
DwellAdjEolOnly(r) == IF EolFlag(r) = 1 THEN 0 ELSE r.DWELL

\* beginning and end of line are excluded from DWELL
DwellAdj(r) == IF EolFlag(r) = 1 \/ r.SEQ = 1 THEN 0 ELSE r.DWELL

\* TEP time periods, from the trip's HHMM departure code
TimeOfDay(trip) ==
    IF trip >= 300 /\ trip < 600 THEN 300
    ELSE IF trip >= 600 /\ trip < 900 THEN 600
    ELSE IF trip >= 900 /\ trip < 1400 THEN 900
    ELSE IF trip >= 1400 /\ trip < 1600 THEN 1400
    ELSE IF trip >= 1600 /\ trip < 1900 THEN 1600
    ELSE IF trip >= 1900 /\ trip < 2200 THEN 1900
    ELSE IF trip >= 2200 /\ trip < 9999 THEN 2200
    ELSE 9999

\* an HHMMSS clock code: times of 24:00:00 and later lose 240000
WrapClock(t) == IF t >= 240000 THEN t - 240000 ELSE t

\* DATE + "{0:0>6}".format(clock), parsed with %m%d%y%H%M%S
ClockStamp(r, t) == ParseDateHMS(ZeroFill(r.DATE_INT, 6) \o ZeroFill(WrapClock(t), 6))

\* an HHMM schedule code at a time point: 2400 and later lose 2400, then a
\* code whose string (DATE + "{0:0>4}") ends in "60" gains 40
SchedCode(r, t) ==
    LET w == IF t >= 2400 THEN t - 2400 ELSE t
    IN  IF EndsWith60(ZeroFill(r.DATE_INT, 6) \o ZeroFill(w, 4)) THEN w + 40 ELSE w

\* TIMESTOP_S / DOORCLOSE_S before the offsets: the placeholder '0101010101'
\* away from time points, DATE + the schedule code at them; %m%d%y%H%M
SchedStamp(r, t) ==
    IF TimePoint(r) = 1
    THEN ParseDateHM(ZeroFill(r.DATE_INT, 6) \o ZeroFill(SchedCode(r, t), 4))
    ELSE ParseDateHM(<<0, 1, 0, 1, 0, 1, 0, 1, 0, 1>>)

\* ServiceDayOffset without the shift: C8 must tell them apart
ServiceDayOffsetNone(ts) == ts

\* midnight to 3 am belongs to the service day before: such a time is one day on
ServiceDayOffset(ts) == IF ts.hh < 3 THEN AddDay(ts) ELSE ts

\* an HHMM trip code in minutes since midnight: 60*(t // 100.0) + (t % 100.0)
TripMinutes(t) == 60 * (t \div 100) + (t % 100)

\* HEADWAY, in hundredths of a minute
Headway(r) ==
    IF r.LASTTRIP < 9999
    THEN 100 * (TripMinutes(r.TRIP) - TripMinutes(r.LASTTRIP))
    ELSE 100 * (TripMinutes(r.NEXTTRIP) - TripMinutes(r.TRIP))

\* PULLDWELL: pullout less door close, 0.0 at an end of line
PullDwell(eol, pullout, doorclose) ==
    IF eol = 0 THEN RoundMinutes(DeltaSeconds(pullout, doorclose)) ELSE 0

\* DATE.to_period('month').to_timestamp()
MonthOf(ts) == [ts EXCEPT !.d = 1, !.hh = 0, !.mi = 0, !.ss = 0]

\* whether the to_datetime conversions of the row succeed
RowParses(r) ==
    /\ ParseDate(ZeroFill(r.DATE_INT, 6)) # <<>>
    /\ ClockStamp(r, r.TIMESTOP_INT) # <<>>
    /\ ClockStamp(r, r.DOORCLOSE_INT) # <<>>
    /\ ClockStamp(r, r.PULLOUT_INT) # <<>>
    /\ SchedStamp(r, r.TIMESTOP_S_INT) # <<>>
    /\ SchedStamp(r, r.DOORCLOSE_S_INT) # <<>>

\* the persisted row of a raw row that passed the filters and parses
CleanRow(r) ==
    LET date      == ParseDate(ZeroFill(r.DATE_INT, 6))[1]
        timestop  == ServiceDayOffset(ClockStamp(r, r.TIMESTOP_INT)[1])
        doorclose == ServiceDayOffset(ClockStamp(r, r.DOORCLOSE_INT)[1])
        pullout   == ServiceDayOffset(ClockStamp(r, r.PULLOUT_INT)[1])
        tp        == TimePoint(r)
    IN  [DATE |-> date, MONTH |-> MonthOf(date), DOW |-> r.DOW,
         TOD |-> TimeOfDay(r.TRIP),
         ROUTE |-> r.ROUTE, PATTCODE |-> r.PATTCODE, DIR |-> r.DIR,
         TRIP |-> r.TRIP, SEQ |-> r.SEQ,
         LASTTRIP |-> r.LASTTRIP, NEXTTRIP |-> r.NEXTTRIP, HEADWAY |-> Headway(r),
         QSTOP |-> r.QSTOP, STOPNAME |-> r.STOPNAME,
         TIMEPOINT |-> tp, EOL |-> EolFlag(r),
         ON |-> r.ON, OFF |-> r.OFF, LOAD_ARR |-> LoadArr(r), LOAD_DEP |-> r.LOAD_DEP,
         RDBRDNGS |-> r.RDBRDNGS,
         TIMESTOP |-> timestop,
         TIMESTOP_S |-> IF tp = 0 THEN NaT
                        ELSE ServiceDayOffset(SchedStamp(r, r.TIMESTOP_S_INT)[1]),
         TIMESTOP_DEV |-> IF tp = 0 THEN <<>> ELSE <<r.TIMESTOP_DEV>>,
         DOORCLOSE |-> doorclose,
         DOORCLOSE_S |-> IF tp = 0 THEN NaT
                         ELSE ServiceDayOffset(SchedStamp(r, r.DOORCLOSE_S_INT)[1]),
         DOORCLOSE_DEV |-> IF tp = 0 THEN <<>> ELSE <<r.DOORCLOSE_DEV>>,
         DWELL |-> DwellAdj(r),
         PULLOUT |-> pullout,
         PULLDWELL |-> PullDwell(EolFlag(r), pullout, doorclose),
         ONTIME2 |-> OnTime(r, 200), ONTIME10 |-> OnTime(r, 1000),
         QC201 |-> r.QC201]

\* ---------------------------------------------- processRawData: one chunk

INDEX_COLUMNS == <<"DATE", "ROUTE", "PATTCODE", "DIR", "TRIP", "SEQ">>

\* the identity key of a row
IndexKey(row) ==
    <<DayNumber(row.DATE), row.ROUTE, row.PATTCODE, row.DIR, row.TRIP, row.SEQ>>

RECURSIVE LexLess(_, _)
\* tuple order of two keys of the same length
LexLess(a, b) ==
    IF a = <<>> THEN FALSE
    ELSE IF Head(a) # Head(b) THEN Head(a) < Head(b)
         ELSE LexLess(Tail(a), Tail(b))

\* drop_duplicates(cols=INDEX_COLUMNS): the first row of each key is kept
DropDuplicates(rows) ==
    LET First(i) == \A j \in 1..(i - 1) : IndexKey(rows[j]) # IndexKey(rows[i])
        keep == {i \in 1..Len(rows) : First(i)}
        F[i \in 0..Len(rows)] ==
            IF i = 0 THEN <<>>
            ELSE IF i \in keep THEN Append(F[i - 1], rows[i]) ELSE F[i - 1]
    IN  F[Len(rows)]

RECURSIVE InsertSorted(_, _)
InsertSorted(row, sorted) ==
    IF sorted = <<>> THEN <<row>>
    ELSE IF LexLess(IndexKey(row), IndexKey(Head(sorted))) THEN <<row>> \o sorted
         ELSE <<Head(sorted)>> \o InsertSorted(row, Tail(sorted))

RECURSIVE SortByIndex(_)
\* sort(INDEX_COLUMNS), stable
SortByIndex(rows) ==
    IF rows = <<>> THEN <<>>
    ELSE InsertSorted(rows[Len(rows)], SortByIndex(SubSeq(rows, 1, Len(rows) - 1)))

\* ------------------------------------------------------- the raw STP rows

PlainName == <<"M", "K", "T">>
EolName   == <<"M", "K", "T", " ", "-", " ", "E", "O", "L">>
Eol2Name  == <<"A", " ", "-", " ", "E", "O", "L", " ", "-", " ", "E", "O", "L">>

\* a mid-route stop of route 5 on 2013-10-09, not a time point
BaseRaw ==
    [SEQ |-> 2, QSTOP |-> 100, STOPNAME |-> PlainName, TIMESTOP_INT |-> 120000,
     ON |-> 3, OFF |-> 1, LOAD_DEP |-> 10, DATE_INT |-> 100913, ROUTE |-> 5,
     TRIP |-> 800, DOW |-> 1, DIR |-> 0, TIMESTOP_S_INT |-> 9999,
     TIMESTOP_DEV |-> 0, DWELL |-> 50, QC201 |-> 0, DOORCLOSE_INT |-> 120020,
     RDBRDNGS |-> 0, PATTCODE |-> 1, PULLOUT_INT |-> 120030,
     DOORCLOSE_S_INT |-> 9999, DOORCLOSE_DEV |-> 0, LASTTRIP |-> 745,
     NEXTTRIP |-> 815, NA |-> {}]

\* first stops, ends of line and stops between, all with a recorded dwell
DwellRows ==
    {[BaseRaw EXCEPT !.SEQ = q, !.STOPNAME = n] :
        q \in {1, 2}, n \in {PlainName, EolName, Eol2Name}}

\* passenger counts, and rows the filters drop
LoadRows ==
    {BaseRaw,
     [BaseRaw EXCEPT !.SEQ = 3, !.ON = 0, !.OFF = 4, !.LOAD_DEP = 2],
     [BaseRaw EXCEPT !.SEQ = 4, !.ON = 5, !.OFF = 0, !.LOAD_DEP = 5],
     [BaseRaw EXCEPT !.SEQ = 5, !.DIR = 6],
     [BaseRaw EXCEPT !.SEQ = 6, !.QC201 = 21],
     [BaseRaw EXCEPT !.SEQ = 7, !.RDBRDNGS = 1000]}

Clocked(date, seq, t, d, p) ==
    [BaseRaw EXCEPT !.DATE_INT = date, !.SEQ = seq, !.TIMESTOP_INT = t,
                    !.DOORCLOSE_INT = d, !.PULLOUT_INT = p]

\* arrival, door close and pullout clocks around midnight and 3 am
ClockRows ==
    {Clocked(100913, 2, 120000, 120020, 120030),
     Clocked(100913, 3, 235950, 240010, 240020),
     Clocked(103113, 2, 23000, 23010, 23020),
     Clocked(123113, 2, 250000, 250010, 250020),
     Clocked(22812, 2, 25950, 30010, 30020),
     Clocked(100913, 4, 265950, 270010, 270020)}

Scheduled(seq, ts, ds) ==
    [BaseRaw EXCEPT !.SEQ = seq, !.TIMESTOP_S_INT = ts, !.DOORCLOSE_S_INT = ds]

\* schedule codes: none, midday, before 3 am, past 2400, ending in 60, unparseable
SchedRows ==
    {Scheduled(2, 9999, 9999),
     Scheduled(3, 1200, 1201),
     Scheduled(4, 230, 231),
     Scheduled(5, 2359, 2400),
     Scheduled(6, 1160, 1200),
     Scheduled(7, 2360, 2400)}

Keyed(date, dir, trip, seq, on) ==
    [BaseRaw EXCEPT !.DATE_INT = date, !.DIR = dir, !.TRIP = trip, !.SEQ = seq,
                    !.ON = on, !.QSTOP = 100 + seq,
                    !.TIMESTOP_S_INT = IF trip = 800 THEN 1200 ELSE 9999,
                    !.DOORCLOSE_S_INT = IF trip = 800 THEN 1201 ELSE 9999,
                    !.TIMESTOP_DEV = 100 * on]

\* two stops of a trip, the trip on another day and in another month, the
\* other direction, a later trip; the stops of the trip of 8:00 are time
\* points, served as many minutes late as passengers board
KeyRows ==
    {Keyed(100913, 0, 800, 1, 3),
     Keyed(100913, 0, 800, 2, 4),
     Keyed(101013, 0, 800, 1, 5),
     Keyed(110613, 0, 800, 1, 2),
     Keyed(100913, 1, 800, 1, 7),
     Keyed(100913, 0, 1615, 1, 1)}

\* rows the filters drop, rows whose SEQ is blank, and rows that are both
FilterRows ==
    {BaseRaw,
     [BaseRaw EXCEPT !.SEQ = 3, !.NA = {"SEQ"}],
     [BaseRaw EXCEPT !.SEQ = 4, !.DIR = 6, !.NA = {"SEQ"}],
     [BaseRaw EXCEPT !.SEQ = 5, !.RDBRDNGS = 1000, !.NA = {"SEQ"}],
     [BaseRaw EXCEPT !.SEQ = 6, !.ROUTE = 0],
     [BaseRaw EXCEPT !.SEQ = 7, !.QSTOP = 9999],
     [BaseRaw EXCEPT !.SEQ = 8, !.NEXTTRIP = 999, !.DATE_INT = 139913],
     [BaseRaw EXCEPT !.SEQ = 9, !.DIR = 6, !.DATE_INT = 139913]}

\* trips of every time period and trips between midnight and three o'clock
TodRows ==
    {[BaseRaw EXCEPT !.TRIP = 0, !.LASTTRIP = 2345, !.NEXTTRIP = 15],
     [BaseRaw EXCEPT !.TRIP = 230, !.LASTTRIP = 215, !.NEXTTRIP = 245],
     [BaseRaw EXCEPT !.TRIP = 300, !.LASTTRIP = 245, !.NEXTTRIP = 315],
     [BaseRaw EXCEPT !.TRIP = 859, !.LASTTRIP = 845, !.NEXTTRIP = 915],
     [BaseRaw EXCEPT !.TRIP = 1359, !.LASTTRIP = 1345, !.NEXTTRIP = 1415],
     [BaseRaw EXCEPT !.TRIP = 1400, !.LASTTRIP = 1345, !.NEXTTRIP = 1415],
     [BaseRaw EXCEPT !.TRIP = 1600, !.LASTTRIP = 1545, !.NEXTTRIP = 1615],
     [BaseRaw EXCEPT !.TRIP = 2159, !.LASTTRIP = 2145, !.NEXTTRIP = 2215],
     [BaseRaw EXCEPT !.TRIP = 2359, !.LASTTRIP = 2345, !.NEXTTRIP = 15]}

\* a trip between two others, the first and the last trip of a day, and the
\* one trip of a day (9999: no such trip)
HeadwayRows ==
    {[BaseRaw EXCEPT !.TRIP = 800, !.LASTTRIP = 745, !.NEXTTRIP = 815],
     [BaseRaw EXCEPT !.TRIP = 500, !.LASTTRIP = 9999, !.NEXTTRIP = 530],
     [BaseRaw EXCEPT !.TRIP = 2330, !.LASTTRIP = 2300, !.NEXTTRIP = 9999],
     [BaseRaw EXCEPT !.TRIP = 1200, !.LASTTRIP = 9999, !.NEXTTRIP = 9999]}

\* time points served half an hour and a minute early, and one, two, five
\* and ten minutes late; deviations in hundredths of a minute
OnTimeRows ==
    {[BaseRaw EXCEPT !.SEQ = q[1], !.TIMESTOP_S_INT = 1200,
                     !.DOORCLOSE_S_INT = 1201, !.TIMESTOP_DEV = q[2]] :
        q \in {<<2, -3000>>, <<3, -100>>, <<4, 100>>, <<5, 200>>,
                <<6, 500>>, <<7, 1000>>}}

\* the rows of the raw files the driver is run on: a row that is kept and a
\* row whose SEQ is blank
StpRows == {BaseRaw, [BaseRaw EXCEPT !.SEQ = 3, !.NA = {"SEQ"}]}

Datasets ==
    {"dwell", "load", "clock", "sched", "keys", "filters", "tod", "stp", "headway",
     "ontime"}

\* the rows a raw file of the data set may hold
RawRows(ds) ==
    CASE ds = "dwell" -> DwellRows
      [] ds = "load"  -> LoadRows
      [] ds = "clock" -> ClockRows
      [] ds = "sched" -> SchedRows
      [] ds = "keys"  -> KeyRows
      [] ds = "filters" -> FilterRows
      [] ds = "tod" -> TodRows
      [] ds = "stp" -> StpRows
      [] ds = "headway" -> HeadwayRows
      [] ds = "ontime" -> OnTimeRows

\* the chunks the reader may yield
Chunks(ds) == SeqsUpTo(RawRows(ds), MaxChunkRows) \ {<<>>}

AllRawRows == UNION {RawRows(ds) : ds \in Datasets}

\* the per-row results, computed once for every raw row
Cleaned ==
    [r \in AllRawRows |->
        [early  |-> PassesEarlyFilters(r),
         coerces |-> Coerces(r),
         passes |-> PassesFilters(r),
         parses |-> RowParses(r),
         row    |-> IF PassesFilters(r) /\ RowParses(r) THEN <<CleanRow(r)>> ELSE <<>>]]

\* the rows of the chunk that remain after the filters
Filtered(ch) == SelectSeq(ch, LAMBDA r : Cleaned[r].passes)

\* whether the chunk raises, rows that do not convert taken out one by one
ChunkRaisesOnDates(ch) ==
    \E i \in 1..Len(ch) : Cleaned[ch[i]].passes /\ ~Cleaned[ch[i]].parses

\* whether the chunk raises: astype fails on a row left by the first two
\* filters, or to_datetime fails on a row left by all filters
ChunkRaises(ch) ==
    \E i \in 1..Len(ch) :
        \/ Cleaned[ch[i]].early /\ ~Cleaned[ch[i]].coerces
        \/ Cleaned[ch[i]].passes /\ ~Cleaned[ch[i]].parses

\* the data frame the chunk appends to the store
CleanChunk(ch) ==
    LET f == Filtered(ch)
    IN  SortByIndex(DropDuplicates([i \in 1..Len(f) |-> Cleaned[f[i]].row[1]]))

\* ------------------------------------------------- numbers of the averages

RECURSIVE Gcd(_, _)
Gcd(a, b) == IF b = 0 THEN a ELSE Gcd(b, a % b)

Abs(x) == IF x < 0 THEN -x ELSE x

\* the real number n/d (d > 0) in lowest terms: the value of a float64 measure
Rat(n, d) == LET g == Gcd(Abs(n), d) IN <<n \div g, d \div g>>

RInt(i) == <<i, 1>>

RAdd(a, b) == Rat(a[1] * b[2] + b[1] * a[2], a[2] * b[2])

RECURSIVE RSum(_)
\* the reducer 'sum'
RSum(s) == IF s = <<>> THEN RInt(0) ELSE RAdd(Head(s), RSum(Tail(s)))

\* the reducer 'mean'
RMean(s) == LET t == RSum(s) IN Rat(t[1], t[2] * Len(s))

\* the reducer 'mean' over a column that may hold NaN: NaN is skipped, and the
\* mean of nothing is NaN
RMeanSkip(s) ==
    LET v == SelectSeq(s, LAMBDA x : x # <<>>)
    IN  IF v = <<>> THEN <<>> ELSE <<RMean([i \in 1..Len(v) |-> v[i][1]])>>

\* the column named f of the rows
Col(rows, f) == [i \in 1..Len(rows) |-> rows[i][f]]

\* an integer column as numbers
ColR(rows, f) == [i \in 1..Len(rows) |-> RInt(rows[i][f])]

\* a column of hundredths that may hold NaN, as numbers
ColRN(rows, f) ==
    [i \in 1..Len(rows) |->
        IF rows[i][f] = <<>> THEN <<>> ELSE <<RInt(rows[i][f][1])>>]

\* --------------------------------------------------------------- group-by

RECURSIVE SortKeys(_)
\* the keys in ascending tuple order
SortKeys(ks) ==
    IF ks = {} THEN <<>>
    ELSE LET least == CHOOSE k \in ks : \A o \in ks : o = k \/ LexLess(k, o)
         IN  <<least>> \o SortKeys(ks \ {least})

\* df.groupby(...): the groups in key order, each with the rows of its key in
\* their stored order; keyOf[i] is the grouping key of rows[i]
GroupBy(rows, keyOf) ==
    LET ks == SortKeys({keyOf[i] : i \in 1..Len(rows)})
        keyed == [i \in 1..Len(rows) |-> <<keyOf[i], rows[i]>>]
        Members(k) == LET sel == SelectSeq(keyed, LAMBDA p : p[1] = k)
                      IN  [i \in 1..Len(sel) |-> sel[i][2]]
    IN  [j \in 1..Len(ks) |-> [key |-> ks[j], rows |-> Members(ks[j])]]

\* the months of a table, sorted, but for the last
MonthsOfButLast(rows) ==
    LET ms == {rows[i].MONTH : i \in 1..Len(rows)}
        ks == SortKeys({<<DayNumber(m)>> : m \in ms})
    IN  [j \in 1..(Len(ks) - 1) |-> CHOOSE m \in ms : DayNumber(m) = ks[j][1]]

\* select_column(inkey, 'MONTH').unique(), then months.sort()
MonthsOf(rows) ==
    LET ms == {rows[i].MONTH : i \in 1..Len(rows)}
        ks == SortKeys({<<DayNumber(m)>> : m \in ms})
    IN  [j \in 1..Len(ks) |-> CHOOSE m \in ms : DayNumber(m) = ks[j][1]]

\* select(inkey, where='MONTH==Timestamp(month)')
SelectMonth(rows, month) == SelectSeq(rows, LAMBDA r : r.MONTH = month)

\* the grouping key with TOD after DOW when time periods are kept separate
TodKey(split, r, more) ==
    IF split THEN <<r.DOW, r.TOD[1]>> \o more ELSE <<r.DOW>> \o more

\* the TOD column of an output: present only when time periods are kept separate
TodCol(split, key) == IF split THEN <<key[2]>> ELSE <<>>

\* the key with DOW (and TOD) taken off
KeyRest(split, key) == SubSeq(key, IF split THEN 3 ELSE 2, Len(key))

\* ---------------------------------------------------- calcMonthlyAverages

\* one month of the cleaned sample, averaged over days for each trip-stop
MonthlyAverages(df, month) ==
    LET gs == GroupBy(df, [i \in 1..Len(df) |->
                  <<df[i].DOW, df[i].ROUTE, df[i].PATTCODE, df[i].DIR,
                    df[i].TRIP, df[i].SEQ>>])
        numdays == Cardinality({df[i].DATE : i \in 1..Len(df)})
    IN  [j \in 1..Len(gs) |->
            LET k == gs[j].key
                g == gs[j].rows
            IN  [MONTH |-> month, DOW |-> k[1], ROUTE |-> k[2], PATTCODE |-> k[3],
                 DIR |-> k[4], TRIP |-> k[5], SEQ |-> k[6],
                 NUMDAYS |-> numdays, OBSTRIPS |-> Len(g),
                 TOD |-> <<g[1].TOD>>, QSTOP |-> g[1].QSTOP,
                 HEADWAY |-> RMean(ColR(g, "HEADWAY")),
                 ON |-> RMean(ColR(g, "ON")),
                 TIMESTOP_DEV |-> RMeanSkip(ColRN(g, "TIMESTOP_DEV")),
                 DWELL |-> RMean(ColR(g, "DWELL"))]]

\* --------------------------------------------------------- aggregateTrips

\* one month of trip-stops, summed over the trips of each route-stop
TripAggregates(df, month, split) ==
    LET gs == GroupBy(df, [i \in 1..Len(df) |->
                  TodKey(split, df[i],
                         <<df[i].ROUTE, df[i].PATTCODE, df[i].DIR, df[i].SEQ>>)])
    IN  [j \in 1..Len(gs) |->
            LET k == gs[j].key
                g == gs[j].rows
                m == KeyRest(split, k)
            IN  [MONTH |-> month, DOW |-> k[1], TOD |-> TodCol(split, k),
                 ROUTE |-> m[1], PATTCODE |-> m[2], DIR |-> m[3], SEQ |-> m[4],
                 NUMDAYS |-> g[1].NUMDAYS,
                 DAILYTRIPS |-> Len(g),
                 TOTTRIPS |-> SumSeq(Col(g, "NUMDAYS")),
                 OBSTRIPS |-> SumSeq(Col(g, "OBSTRIPS")),
                 QSTOP |-> g[1].QSTOP,
                 HEADWAY |-> RMean(Col(g, "HEADWAY")),
                 ON |-> RSum(Col(g, "ON")),
                 TIMESTOP_DEV |-> RMeanSkip(Col(g, "TIMESTOP_DEV")),
                 DWELL |-> RMean(Col(g, "DWELL"))]]

\* --------------------------------------------------- calculateRouteTotals

\* RouteTotalON with the reducer 'first': C1 must tell them apart
RouteTotalONFirst(g) == g[1].ON

\* 'ON': {'ON': 'sum'} of the route totals
RouteTotalON(g) == RSum(Col(g, "ON"))

\* RouteTotalHEADWAY with the reducer 'mean': C28 must tell them apart
RouteTotalHEADWAYMean(g) == RMean(Col(g, "HEADWAY"))

\* 'HEADWAY': {'HEADWAY': 'first'} of the route totals
RouteTotalHEADWAY(g) == g[1].HEADWAY

\* one month of route-stops, summed over the stops of each route and direction
RouteTotals(df, month, split) ==
    LET gs == GroupBy(df, [i \in 1..Len(df) |->
                  TodKey(split, df[i], <<df[i].ROUTE, df[i].DIR>>)])
    IN  [j \in 1..Len(gs) |->
            LET k == gs[j].key
                g == gs[j].rows
                m == KeyRest(split, k)
            IN  [MONTH |-> month, DOW |-> k[1], TOD |-> TodCol(split, k),
                 ROUTE |-> m[1], DIR |-> m[2],
                 NUMDAYS |-> g[1].NUMDAYS,
                 DAILYTRIPS |-> g[1].DAILYTRIPS,
                 TOTTRIPS |-> g[1].NUMDAYS,
                 OBSTRIPS |-> g[1].OBSTRIPS,
                 HEADWAY |-> RouteTotalHEADWAY(g),
                 ON |-> RouteTotalON(g),
                 TIMESTOP_DEV |-> RMeanSkip(Col(g, "TIMESTOP_DEV")),
                 DWELL |-> RSum(Col(g, "DWELL"))]]

\* ---------------------------------------------------- calculateStopTotals

\* one month of route-stops, summed over the routes that serve each stop
StopTotals(df, month, split) ==
    LET gs == GroupBy(df, [i \in 1..Len(df) |->
                  TodKey(split, df[i], <<df[i].QSTOP>>)])
    IN  [j \in 1..Len(gs) |->
            LET k == gs[j].key
                g == gs[j].rows
                m == KeyRest(split, k)
            IN  [MONTH |-> month, DOW |-> k[1], TOD |-> TodCol(split, k),
                 QSTOP |-> m[1],
                 NUMDAYS |-> g[1].NUMDAYS,
                 DAILYTRIPS |-> g[1].DAILYTRIPS,
                 TOTTRIPS |-> SumSeq(Col(g, "NUMDAYS")),
                 OBSTRIPS |-> SumSeq(Col(g, "OBSTRIPS")),
                 ON |-> RSum(Col(g, "ON")),
                 DWELL |-> RMean(Col(g, "DWELL"))]]

\* -------------------------------------------------- calculateSystemTotals

\* SystemOBSTRIPS with the reducer 'first': C2 must tell them apart
SystemOBSTRIPSFirst(g) == g[1].OBSTRIPS

\* 'OBSTRIPS': {'OBSTRIPS': 'sum'} of the system totals
SystemOBSTRIPS(g) == SumSeq(Col(g, "OBSTRIPS"))

\* one month of route totals, summed over the system
SystemTotals(df, month, split) ==
    LET gs == GroupBy(df, [i \in 1..Len(df) |-> TodKey(split, df[i], <<>>)])
    IN  [j \in 1..Len(gs) |->
            LET k == gs[j].key
                g == gs[j].rows
            IN  [MONTH |-> month, DOW |-> k[1], TOD |-> TodCol(split, k),
                 NUMDAYS |-> g[1].NUMDAYS,
                 DAILYTRIPS |-> SumSeq(Col(g, "DAILYTRIPS")),
                 TOTTRIPS |-> SumSeq(Col(g, "TOTTRIPS")),
                 OBSTRIPS |-> SystemOBSTRIPS(g),
                 ON |-> RSum(Col(g, "ON")),
                 DWELL |-> RSum(Col(g, "DWELL"))]]

\* ------------------------------------------------- GTFS: wrap-around time

RECURSIVE IntOf(_)
\* int(s) of a digit string
IntOf(s) == IF s = <<>> THEN 0 ELSE 10 * IntOf(SubSeq(s, 1, Len(s) - 1)) + s[Len(s)]

\* a date at midnight
Date(y, m, d) == [y |-> y, m |-> m, d |-> d, hh |-> 0, mi |-> 0, ss |-> 0]

\* a clock string 'HH:MM:SS' is <<hr, min, sec>>, each a digit string;
\* pd.to_datetime(dateString + ' ' + hr:min:sec, format='%Y-%m-%d %H:%M:%S'):
\* each of %H, %M, %S takes one or two digits; <<>> when it does not parse
ParseClock(dateString, hr, min, sec) ==
    IF /\ Len(hr) \in 1..2 /\ Len(min) \in 1..2 /\ Len(sec) \in 1..2
       /\ IntOf(hr) < 24 /\ IntOf(min) < 60 /\ IntOf(sec) < 60
    THEN <<[dateString EXCEPT !.hh = IntOf(hr), !.mi = IntOf(min), !.ss = IntOf(sec)]>>
    ELSE <<>>

\* the timestamp of a clock string on a service date, <<ts>>; <<>> when
\* to_datetime raises ValueError
getWrapAroundTime(dateString, timeString) ==
    LET hr      == timeString[1]
        nextDay == IntOf(hr) >= 24
        time    == ParseClock(dateString,
                              IF nextDay THEN Digits(IntOf(hr) - 24) ELSE hr,
                              timeString[2], timeString[3])
    IN  IF time = <<>> THEN <<>>
        ELSE IF nextDay THEN <<AddDay(time[1])>> ELSE time

\* ---------------------------------------------------- GTFS: shape lines

\* the Lambert projection to x, y in feet, on the model's grid: a linear
\* one-to-one map of (longitude, latitude) in whole grid units
convertLongitudeLatitudeToXY(lon_lat) == <<3 * lon_lat[1], 4 * lon_lat[2]>>

\* the model's lines run along one street (y is constant), so a line is told
\* by the x of its points
LineXs(line) == [i \in 1..Len(line) |-> line[i][1]]

RECURSIVE PathLength(_)
\* LineString.length
PathLength(xs) ==
    IF Len(xs) < 2 THEN 0
    ELSE Abs(xs[2] - xs[1]) + PathLength(Tail(xs))

\* line.project(Point(x, y), normalized=True): how far along the line its
\* point nearest to x lies (the first such point), as a share of its length
Project(line, x) ==
    LET xs  == LineXs(line)
        lo  == CHOOSE v \in {xs[i] : i \in 1..Len(xs)} :
                   \A i \in 1..Len(xs) : v <= xs[i]
        hi  == CHOOSE v \in {xs[i] : i \in 1..Len(xs)} :
                   \A i \in 1..Len(xs) : v >= xs[i]
        c   == IF x < lo THEN lo ELSE IF x > hi THEN hi ELSE x
        On(i) == (xs[i] <= c /\ c <= xs[i + 1]) \/ (xs[i + 1] <= c /\ c <= xs[i])
        seg == CHOOSE i \in 1..(Len(xs) - 1) :
                   On(i) /\ \A j \in 1..(i - 1) : ~On(j)
    IN  Rat(PathLength(SubSeq(xs, 1, seg)) + Abs(c - xs[seg]), PathLength(xs))

\* the order of two distances
RatLess(a, b) == a[1] * b[2] < b[1] * a[2]

RECURSIVE SortDistances(_)
\* sorted(shapePointDict): the distances in ascending order
SortDistances(ds) ==
    IF ds = {} THEN <<>>
    ELSE LET least == CHOOSE d \in ds : \A o \in ds : o = d \/ RatLess(d, o)
         IN  <<least>> \o SortDistances(ds \ {least})

\* a shape point is <<lat, lon, dist>>; a stop time has a stop with stop_lon
\* and stop_lat. The outcome of getShapeLine(shape_id, stopTimeList) on a
\* schedule with the given shapes: the line returned, or the error raised
getShapeLine(shapes, shape_id, stopTimeList) ==
    LET stopPoints ==
            [i \in 1..Len(stopTimeList) |->
                convertLongitudeLatitudeToXY(
                    <<stopTimeList[i].stop.stop_lon, stopTimeList[i].stop.stop_lat>>)]
        \* stopLine is bound only for two stops and more
        stopLine == stopPoints
        points == shapes[shape_id]
        xy(k) == convertLongitudeLatitudeToXY(<<points[k][2], points[k][1]>>)
        projectedDist(k) ==
            IF Len(stopPoints) > 1 THEN Project(stopLine, xy(k)[1])
            ELSE RInt(points[k][3])
        \* shapePointDict[projectedDist] = (x, y): a later point replaces an
        \* earlier one at the same distance
        keys == SortDistances({projectedDist(k) : k \in 1..Len(points)})
        Last(d) == CHOOSE k \in 1..Len(points) :
                       /\ projectedDist(k) = d
                       /\ \A j \in (k + 1)..Len(points) : projectedDist(j) # d
        shapePoints == [n \in 1..Len(keys) |-> xy(Last(keys[n]))]
    IN  IF shape_id \notin DOMAIN shapes
        THEN IF Len(stopPoints) > 1
             THEN [raised |-> "", line |-> stopLine]
             ELSE [raised |-> "UnboundLocalError", line |-> <<>>]
        ELSE IF Len(shapePoints) < 2
             THEN [raised |-> "ValueError", line |-> <<>>]
             ELSE [raised |-> "", line |-> shapePoints]

\* ------------------------------------------------- GTFS: getGTFSDataFrame

\* a text is a tuple of one-character strings
DigitChars == <<"0", "1", "2", "3", "4", "5", "6", "7", "8", "9">>

UpperChars ==
    <<"A", "B", "C", "D", "E", "F", "G", "H", "I", "J", "K", "L", "M",
      "N", "O", "P", "Q", "R", "S", "T", "U", "V", "W", "X", "Y", "Z">>

LowerChars ==
    <<"a", "b", "c", "d", "e", "f", "g", "h", "i", "j", "k", "l", "m",
      "n", "o", "p", "q", "r", "s", "t", "u", "v", "w", "x", "y", "z">>

\* the characters in the order strings are compared by
CharOrder == <<" ", "-">> \o DigitChars \o UpperChars \o <<"_">> \o LowerChars

\* the place of a character in that order
Rank(c) == CHOOSE i \in 1..Len(CharOrder) : CharOrder[i] = c

\* the text as the numbers it is compared by
Ranks(text) == [i \in 1..Len(text) |-> Rank(text[i])]

IsDigit(c) == \E d \in 1..10 : DigitChars[d] = c

\* str(n) for n >= 0
Str(n) == [i \in 1..Len(Digits(n)) |-> DigitChars[Digits(n)[i] + 1]]

\* text.upper()
Upper(text) ==
    [i \in 1..Len(text) |->
        IF \E k \in 1..26 : LowerChars[k] = text[i]
        THEN UpperChars[CHOOSE k \in 1..26 : LowerChars[k] = text[i]]
        ELSE text[i]]

\* text.strip(): without the blanks at its ends
Strip(text) ==
    LET inked == {i \in 1..Len(text) : text[i] # " "}
    IN  IF inked = {} THEN <<>>
        ELSE SubSeq(text, CHOOSE i \in inked : \A j \in inked : i <= j,
                          CHOOSE i \in inked : \A j \in inked : i >= j)

\* str(x).strip().upper()
Cleanup(text) == Upper(Strip(text))

\* the digits of a text of digits
DigitsOf(text) ==
    [i \in 1..Len(text) |-> (CHOOSE d \in 1..10 : DigitChars[d] = text[i]) - 1]

\* int(text): <<n>>, or <<>> when it raises ValueError
IntOfText(text) ==
    IF text # <<>> /\ \A i \in 1..Len(text) : IsDigit(text[i])
    THEN <<IntOf(DigitsOf(text))>>
    ELSE <<>>

\* the day of week of a service period, a service that is not known taken for
\* a weekday
ServiceDowDefault(service_id) ==
    IF IntOfText(service_id) # <<>> THEN IntOfText(service_id)
    ELSE IF service_id = <<"S", "A", "T">> THEN <<2>>
    ELSE IF service_id \in {<<"S", "U", "N">>, <<"S", "U", "N", "A", "B">>}
         THEN <<3>>
    ELSE <<1>>

\* the day of week of a service period, 1 weekday, 2 Saturday, 3 Sunday:
\* <<dow>>, or <<>> when the service id is not known (ValueError)
ServiceDow(service_id) ==
    IF IntOfText(service_id) # <<>> THEN IntOfText(service_id)
    ELSE IF service_id \in {<<"W", "K", "D", "Y">>, <<"M", "-", "F", "S", "A", "T">>}
         THEN <<1>>
    ELSE IF service_id = <<"S", "A", "T">> THEN <<2>>
    ELSE IF service_id \in {<<"S", "U", "N">>, <<"S", "U", "N", "A", "B">>}
         THEN <<3>>
    ELSE <<>>

\* the time period of a trip by its first departure, int(hr + min)
TimeOfDayName(firstDeparture) ==
    IF firstDeparture >= 300 /\ firstDeparture < 600 THEN "0300-0559"
    ELSE IF firstDeparture >= 600 /\ firstDeparture < 900 THEN "0600-0859"
    ELSE IF firstDeparture >= 900 /\ firstDeparture < 1400 THEN "0900-1359"
    ELSE IF firstDeparture >= 1400 /\ firstDeparture < 1600 THEN "1400-1559"
    ELSE IF firstDeparture >= 1600 /\ firstDeparture < 1900 THEN "1600-1859"
    ELSE IF firstDeparture >= 1900 /\ firstDeparture < 2200 THEN "1900-2159"
    ELSE IF firstDeparture >= 2200 /\ firstDeparture < 9999 THEN "2200-0259"
    ELSE ""

\* the fare of a route: the price of the last fare rule of the route, over
\* the fare attributes and their rules in order; 0 without one
Fare(schedule, route_id) ==
    LET fs == schedule.fares
        F[i \in 0..Len(fs)] ==
            IF i = 0 THEN 0
            ELSE IF \E j \in 1..Len(fs[i].rules) : fs[i].rules[j] = route_id
                 THEN fs[i].price
                 ELSE F[i - 1]
    IN  F[Len(fs)]

\* str(firstDeparture) + '_' + str(firstSeq)
TripName(firstDeparture, firstSeq) ==
    Str(firstDeparture) \o <<"_">> \o Str(firstSeq)

\* RunTime without the clamp at 0: C26 must tell them apart
RunTimeSigned(seconds) == RoundMinutes(seconds)

\* round(x, 2) of minutes that may be negative, then max(0, .)
RunTime(seconds) == IF seconds <= 0 THEN 0 ELSE RoundMinutes(seconds)

\* endOfLine of stop time i of n, counted from 1: the mark of the next to last
EndOfLineEarly(n, i) == IF i + 1 >= n THEN 1 ELSE 0

\* endOfLine of stop time i of n, counted from 1: 1 at i == len(stopTimeList) - 1
\* counted from 0
EndOfLine(n, i) == IF i = n THEN 1 ELSE 0

\* the record of stop time i of a trip: <<record>>, or <<>> when a clock
\* string does not convert (ValueError)
StopRecord(schedule, dow, trip, i) ==
    LET stl   == trip.stop_times
        st    == stl[i]
        route == schedule.routes[trip.route_id]
        startDate == schedule.dateRange[1]
        firstDeparture ==
            IntOf(stl[1].departure_time[1] \o stl[1].departure_time[2])
        startOfLine == IF i = 1 THEN 1 ELSE 0
        endOfLine   == EndOfLine(Len(stl), i)
        arrivalTime   == getWrapAroundTime(startDate, st.arrival_time)
        departureTime == getWrapAroundTime(startDate, st.departure_time)
        lastDepartureTime ==
            IF i = 1 THEN startDate
            ELSE getWrapAroundTime(startDate, stl[i - 1].departure_time)[1]
        dwellTime ==
            IF startOfLine = 1 \/ endOfLine = 1 THEN 0
            ELSE RoundMinutes(DeltaSeconds(departureTime[1], arrivalTime[1]))
        runtime ==
            IF startOfLine = 1 THEN 0
            ELSE RunTime(DeltaTotalSeconds(arrivalTime[1], lastDepartureTime))
    IN  IF arrivalTime = <<>> \/ departureTime = <<>>
        THEN <<>>
        ELSE <<[MONTH |-> startDate, DATE |-> startDate, DOW |-> dow,
                TOD |-> TimeOfDayName(firstDeparture),
                AGENCY_ID |-> Cleanup(route.agency_id),
                DIR |-> Cleanup(trip.direction_id),
                TRIP |-> TripName(firstDeparture, stl[1].stop_sequence),
                SEQ |-> st.stop_sequence,
                ROUTE_TYPE |-> route.route_type,
                TRIP_HEADSIGN |-> Cleanup(trip.trip_headsign),
                HEADWAY_S |-> <<>>,
                FARE |-> Fare(schedule, trip.route_id),
                SOL |-> startOfLine, EOL |-> endOfLine,
                ARRIVAL_TIME_S |-> arrivalTime[1],
                DEPARTURE_TIME_S |-> departureTime[1],
                DWELL_S |-> dwellTime, RUNTIME_S |-> runtime,
                TOTTIME_S |-> runtime + dwellTime,
                ROUTE_ID |-> Cleanup(trip.route_id),
                TRIP_ID |-> Cleanup(trip.trip_id),
                STOP_ID |-> st.stop.stop_id]>>

\* the records of a trip, or the first error its shape or its stop times raise
TripRecords(schedule, dow, trip) ==
    LET shapeLine == getShapeLine(schedule.shapes, trip.shape_id, trip.stop_times)
        recs == [i \in 1..Len(trip.stop_times) |-> StopRecord(schedule, dow, trip, i)]
    IN  IF shapeLine.raised # "" THEN [raised |-> shapeLine.raised, rows |-> <<>>]
        ELSE IF \E i \in 1..Len(recs) : recs[i] = <<>>
             THEN [raised |-> "ValueError", rows |-> <<>>]
             ELSE [raised |-> "", rows |-> [i \in 1..Len(recs) |-> recs[i][1]]]

\* a sort key: the texts (as they are compared) and numbers of a row one
\* after the other, each closed by -1, which sorts before every character
FlatKey(parts) ==
    LET F[i \in 0..Len(parts)] ==
            IF i = 0 THEN <<>> ELSE F[i - 1] \o parts[i] \o <<-1>>
    IN  F[Len(parts)]

RECURSIVE InsertByKey(_, _, _)
InsertByKey(n, sorted, keyOf) ==
    IF sorted = <<>> THEN <<n>>
    ELSE IF LexLess(keyOf[n], keyOf[Head(sorted)]) THEN <<n>> \o sorted
         ELSE <<Head(sorted)>> \o InsertByKey(n, Tail(sorted), keyOf)

RECURSIVE SortIndices(_, _)
\* the numbers 1..n ordered by their keys, ties in their given order
SortIndices(n, keyOf) ==
    IF n = 0 THEN <<>>
    ELSE InsertByKey(n, SortIndices(n - 1, keyOf), keyOf)

\* df.sort(columns): the rows ordered by their keys, ties in their given order
SortRows(rows, keyOf) ==
    LET order == SortIndices(Len(rows), keyOf)
    IN  [i \in 1..Len(rows) |-> rows[order[i]]]

\* the headways of a group of rows that share route, direction, head sign
\* and stop sequence: by departure, the minutes since the departure before
calculateHeadways(df) ==
    LET sorted == SortRows(df, [i \in 1..Len(df) |->
                                   <<EpochSeconds(df[i].DEPARTURE_TIME_S)>>])
    IN  [i \in 1..Len(sorted) |->
            [sorted[i] EXCEPT !.HEADWAY_S =
                IF i = 1 THEN <<>>
                ELSE <<RoundMinutes(DeltaSeconds(sorted[i].DEPARTURE_TIME_S,
                                                 sorted[i - 1].DEPARTURE_TIME_S))>>]]

RECURSIVE Concat(_)
Concat(ss) == IF ss = <<>> THEN <<>> ELSE Head(ss) \o Concat(Tail(ss))

\* the columns headways are grouped by, as a sort key
HeadwayKey(r) ==
    FlatKey(<<Ranks(r.AGENCY_ID), Ranks(r.ROUTE_ID), Ranks(r.DIR),
              Ranks(r.TRIP_HEADSIGN), <<r.SEQ>>>>)

\* the index columns, as a sort key
IndexOrder(r) ==
    FlatKey(<<Ranks(r.AGENCY_ID), Ranks(r.ROUTE_ID), Ranks(r.DIR),
              Ranks(r.TRIP_HEADSIGN), Ranks(r.TRIP), <<r.SEQ>>>>)

\* df.groupby([...]).apply(calculateHeadways): the groups in key order
GroupHeadways(data) ==
    LET groups == GroupBy(data, [i \in 1..Len(data) |-> HeadwayKey(data[i])])
    IN  Concat([g \in 1..Len(groups) |-> calculateHeadways(groups[g].rows)])

\* df.sort(indexColumns), then df.index = Series(range(start, start + len(df)))
SortAndIndex(df, start) ==
    LET sorted == SortRows(df, [i \in 1..Len(df) |-> IndexOrder(df[i])])
    IN  [i \in 1..Len(sorted) |-> [index |-> start + i - 1, row |-> sorted[i]]]

\* the records of the trips of a service period, trip by trip
PeriodRecords(schedule, period) ==
    LET trips == SelectSeq(schedule.trips, LAMBDA t : t.service_id = period)
    IN  [k \in 1..Len(trips) |->
            TripRecords(schedule, ServiceDow(period)[1], trips[k])]

\* the table of the records of the trips: the first error raised, KeyError
\* when there is no record to group, or the rows sorted and indexed
FrameOf(recs, start) ==
    LET bad == {k \in 1..Len(recs) : recs[k].raised # ""}
    IN  IF bad # {}
        THEN [raised |-> recs[CHOOSE k \in bad : \A j \in bad : k <= j].raised,
              rows |-> <<>>]
        ELSE IF \A k \in 1..Len(recs) : recs[k].rows = <<>>
             THEN [raised |-> "KeyError", rows |-> <<>>]
             ELSE [raised |-> "",
                   rows |-> SortAndIndex(
                       GroupHeadways(Concat([k \in 1..Len(recs) |-> recs[k].rows])),
                       start)]

\* the trip-stop table of a service period: the rows with their index, or the
\* error raised
getGTFSDataFrame(schedule, period, start) ==
    IF ServiceDow(period) = <<>> THEN [raised |-> "ValueError", rows |-> <<>>]
    ELSE FrameOf(PeriodRecords(schedule, period), start)

\* ---------------------------------------------------------- GTFS: calls

NoCall == [fn |-> "none"]

\* the service dates and clock strings getWrapAroundTime is called with
WrapDates == {Date(2013, 10, 9), Date(2013, 12, 31), Date(2012, 2, 28)}

MaxClockHour == 49

WrapClocks ==
    {<<ZeroFill(h, 2), ZeroFill(m, 2), ZeroFill(x, 2)>> :
        h \in 0..MaxClockHour, m \in {0, 15, 59}, x \in {0, 59}}

\* a call of getWrapAroundTime: it returns a timestamp or raises
CallGetWrapAroundTime ==
    /\ call = NoCall
    /\ \E d \in WrapDates, t \in WrapClocks :
          LET time == getWrapAroundTime(d, t)
          IN  call' = [fn |-> "getWrapAroundTime", dateString |-> d, timeString |-> t,
                       raised |-> time = <<>>, value |-> time]
    /\ UNCHANGED <<cleanVars, aggVars, gtfsVars, driverVars>>

\* the stops of the street, west to east
Stop(id, lon) == [stop_id |-> id, stop_lon |-> lon, stop_lat |-> 0]

Stops == {Stop(1, 0), Stop(2, 2), Stop(3, 5), Stop(4, 9)}

StopTime(seq, stop, arr, dep) ==
    [stop_sequence |-> seq, stop |-> stop, arrival_time |-> arr, departure_time |-> dep]

Clock(h, m, x) == <<ZeroFill(h, 2), ZeroFill(m, 2), ZeroFill(x, 2)>>

MaxStops == 3

\* the stop-time lists of a trip: up to MaxStops different stops, in any order
StopTimeLists ==
    {[i \in 1..Len(q) |-> StopTime(i, q[i], Clock(8, i, 0), Clock(8, i, 30))] :
        q \in {q \in SeqsUpTo(Stops, MaxStops) :
                  \A i, j \in 1..Len(q) : i # j => q[i] # q[j]}}

\* the shapes of the schedule: in order, scrambled, and with a single point
Shapes ==
    [id \in {"along", "scrambled", "point"} |->
        CASE id = "along" -> <<<<0, 0, 0>>, <<0, 4, 4>>, <<0, 9, 9>>>>
          [] id = "scrambled" -> <<<<0, 9, 9>>, <<0, 1, 1>>, <<0, 5, 5>>, <<0, 12, 12>>>>
          [] id = "point" -> <<<<0, 3, 3>>>>]

\* the shape references of trips: one is not among the shapes of the schedule
ShapeIds == DOMAIN Shapes \cup {"missing"}

\* a call of getShapeLine: it returns a line or raises
CallGetShapeLine ==
    /\ call = NoCall
    /\ \E id \in ShapeIds, stl \in StopTimeLists :
          LET out == getShapeLine(Shapes, id, stl)
          IN  call' = [fn |-> "getShapeLine", shape_id |-> id, stopTimeList |-> stl,
                       raised |-> out.raised, value |-> out.line]
    /\ UNCHANGED <<cleanVars, aggVars, gtfsVars, driverVars>>

\* the routes of the schedules
Routes ==
    [id \in {<<"5">>, <<"1", "4">>} |->
        [agency_id |-> <<"S", "F", "M", "T", "A">>, route_type |-> 3]]

Trip(id, service, route, dir, headsign, shape, stop_times) ==
    [trip_id |-> id, service_id |-> service, route_id |-> route,
     direction_id |-> dir, trip_headsign |-> headsign, shape_id |-> shape,
     stop_times |-> stop_times]

\* a trip from the first stop to the second, leaving at h:m and five minutes on
Run(id, service, route, dir, headsign, shape, h, m) ==
    Trip(id, service, route, dir, headsign, shape,
         <<StopTime(1, Stop(1, 0), Clock(h, m, 0), Clock(h, m, 0)),
           StopTime(2, Stop(2, 2), Clock(h, m + 5, 0), Clock(h, m + 5, 30))>>)

Schedule(start, periods, trips, fares) ==
    [dateRange |-> <<start, Date(2013, 12, 31)>>, periods |-> periods,
     trips |-> trips, fares |-> fares, routes |-> Routes, shapes |-> Shapes]

WKDY == <<"W", "K", "D", "Y">>
SAT  == <<"S", "A", "T">>
SUN  == <<"S", "U", "N">>

FeedNames == {"weekday", "owl", "weekend", "short", "late", "holiday", "noisy"}

\* the schedule files: a weekday of three runs a quarter of an hour apart;
\* runs before and after midnight of a numbered service and a trip of one
\* stop time of another; a weekend of two
\* services without shapes; a trip of one stop without a shape; a trip that
\* ends two days on; a service the reader does not know and one without trips;
\* a trip whose second stop is reached before the first one is left and whose
\* third stop is left before it is reached
Feed(name) ==
    CASE name = "weekday" ->
            Schedule(Date(2013, 10, 9), <<WKDY>>,
                <<Run(<<"t", "2">>, WKDY, <<"5">>, <<"0">>, <<"O", "b">>, "along", 8, 15),
                  Run(<<"t", "1">>, WKDY, <<"5">>, <<"0">>, <<"O", "B">>, "along", 8, 0),
                  Run(<<"t", "3">>, WKDY, <<"5">>, <<"0">>, <<"o", "b", " ">>, "along", 8, 40)>>,
                <<[price |-> 2, rules |-> <<<<"5">>>>]>>)
      [] name = "owl" ->
            Schedule(Date(2013, 10, 9), <<<<"1">>, <<"2">>>>,
                <<Run(<<"n", "1">>, <<"1">>, <<"1", "4">>, <<"1">>, <<"I", "B">>, "scrambled", 0, 30),
                  Run(<<"n", "2">>, <<"1">>, <<"1", "4">>, <<"1">>, <<"I", "B">>, "scrambled", 24, 45),
                  Trip(<<"n", "3">>, <<"2">>, <<"1", "4">>, <<"1">>, <<"I", "B">>, "along",
                       <<StopTime(4, Stop(1, 0), Clock(1, 0, 0), Clock(1, 2, 0))>>)>>,
                <<>>)
      [] name = "weekend" ->
            Schedule(Date(2013, 11, 2), <<SAT, SUN>>,
                <<Trip(<<"s", "1">>, SAT, <<"5">>, <<"0">>, <<"O", "B">>, "missing",
                       <<StopTime(1, Stop(1, 0), Clock(23, 50, 0), Clock(23, 50, 0)),
                         StopTime(2, Stop(3, 5), Clock(23, 58, 0), Clock(24, 1, 20)),
                         StopTime(3, Stop(2, 2), Clock(24, 9, 0), Clock(24, 9, 0))>>),
                  Run(<<"u", "1">>, SUN, <<"1", "4">>, <<"1">>, <<"I", "B">>, "missing", 9, 0),
                  Run(<<"u", "2">>, SUN, <<"5">>, <<"1">>, <<"I", "B">>, "along", 9, 10)>>,
                <<[price |-> 2, rules |-> <<<<"5">>, <<"1", "4">>>>],
                  [price |-> 5, rules |-> <<<<"1", "4">>>>]>>)
      [] name = "short" ->
            Schedule(Date(2013, 10, 9), <<WKDY>>,
                <<Trip(<<"x", "1">>, WKDY, <<"5">>, <<"0">>, <<"O", "B">>, "missing",
                       <<StopTime(1, Stop(1, 0), Clock(8, 0, 0), Clock(8, 0, 0))>>)>>,
                <<>>)
      [] name = "late" ->
            Schedule(Date(2013, 10, 9), <<WKDY>>,
                <<Trip(<<"l", "1">>, WKDY, <<"5">>, <<"0">>, <<"O", "B">>, "along",
                       <<StopTime(1, Stop(1, 0), Clock(47, 50, 0), Clock(47, 50, 0)),
                         StopTime(2, Stop(2, 2), Clock(48, 0, 0), Clock(48, 0, 0))>>)>>,
                <<>>)
      [] name = "holiday" ->
            Schedule(Date(2013, 12, 25), <<<<"X", "M", "A", "S">>, WKDY>>,
                <<Run(<<"h", "1">>, <<"X", "M", "A", "S">>, <<"5">>, <<"0">>, <<"O", "B">>, "along", 10, 0)>>,
                <<>>)
      [] name = "noisy" ->
            Schedule(Date(2013, 10, 9), <<WKDY>>,
                <<Trip(<<"z", "1">>, WKDY, <<"5">>, <<"0">>, <<"O", "B">>, "along",
                       <<StopTime(1, Stop(1, 0), Clock(8, 10, 0), Clock(8, 12, 0)),
                         StopTime(2, Stop(2, 2), Clock(8, 11, 0), Clock(8, 11, 30)),
                         StopTime(3, Stop(3, 5), Clock(8, 20, 0), Clock(8, 19, 0)),
                         StopTime(4, Stop(4, 9), Clock(8, 30, 0), Clock(8, 31, 0))>>),
                  Run(<<"z", "2">>, WKDY, <<"5">>, <<"0">>, <<"O", "B">>, "along", 7, 0)>>,
                <<[price |-> 2, rules |-> <<<<"5">>>>]>>)

\* rows the trip-stop table may hold
MaxGtfsRows == 12

\* the table of every service period of every file, at every start index
Frames ==
    [name \in FeedNames |->
        [k \in 1..Len(Feed(name).periods) |->
            [start \in 0..MaxGtfsRows |->
                getGTFSDataFrame(Feed(name), Feed(name).periods[k], start)]]]

\* a call of getGTFSDataFrame: it returns a table or raises
CallGetGTFSDataFrame ==
    /\ call = NoCall
    /\ \E name \in FeedNames, start \in 0..MaxGtfsRows :
          \E k \in 1..Len(Feed(name).periods) :
             LET df == Frames[name][k][start]
             IN  call' = [fn |-> "getGTFSDataFrame", schedule |-> name,
                          period |-> Feed(name).periods[k], startIndex |-> start,
                          raised |-> df.raised, value |-> df.rows]
    /\ UNCHANGED <<cleanVars, aggVars, gtfsVars, driverVars>>

\* the caller takes the outcome: the next call may start
Return ==
    /\ call # NoCall
    /\ call.fn # "none"
    /\ call' = NoCall
    /\ UNCHANGED <<cleanVars, aggVars, gtfsVars, driverVars>>

\* ---------------------------------------------------------- processRawData

Methods ==
    {"calcMonthlyAverages", "aggregateTrips", "calculateRouteTotals",
     "calculateStopTotals", "calculateSystemTotals"}

\* the table each aggregation writes (its outkey)
OutKey(m) ==
    CASE m = "calcMonthlyAverages" -> "monthly"
      [] m = "aggregateTrips" -> "route_stops"
      [] m = "calculateRouteTotals" -> "route_totals"
      [] m = "calculateStopTotals" -> "stop_totals"
      [] m = "calculateSystemTotals" -> "system_totals"

OutKeys == {OutKey(m) : m \in Methods}

NoTables == [k \in OutKeys |-> <<>>]

\* no aggregation has run yet
AggIdle == apc = "idle" /\ tables = NoTables

\* store = pd.HDFStore(outfile): opened for appending, the table is kept
OpenRawData ==
    /\ dataset \in Datasets
    /\ cpc = "idle"
    /\ AggIdle
    /\ cpc' = "reading"
    /\ rowsWritten' = 0
    /\ UNCHANGED <<dataset, store, chunk, aggVars, call, gtfsVars, driverVars>>

\* one pass of "for chunk in reader": filter, derive, convert, drop
\* duplicates, sort and append; a failed conversion raises out of the call
ProcessChunk ==
    /\ cpc = "reading"
    /\ \E ch \in Chunks(dataset) :
          /\ chunk' = ch
          /\ IF ChunkRaises(ch)
             THEN /\ cpc' = "failed"
                  /\ UNCHANGED <<store, rowsWritten>>
             ELSE LET df == CleanChunk(ch)
                  IN  /\ Len(store) + Len(df) <= MaxStoreRows
                      /\ store' = store \o df
                      /\ rowsWritten' = rowsWritten + Len(df)
                      /\ cpc' = cpc
    /\ UNCHANGED <<dataset, aggVars, call, gtfsVars, driverVars>>

\* the reader is exhausted: store.close()
CloseRawData ==
    /\ cpc = "reading"
    /\ cpc' = "idle"
    /\ UNCHANGED <<dataset, store, rowsWritten, chunk, aggVars, call, gtfsVars, driverVars>>

\* ------------------------------------------------------- the aggregations

\* the table each aggregation reads (its inkey): the cleaned sample, then the
\* output of the level below; the system totals need the columns of the
\* route totals
InRows(m) ==
    CASE m = "calcMonthlyAverages" -> store
      [] m = "aggregateTrips" -> tables["monthly"]
      [] m = "calculateRouteTotals" -> tables["route_stops"]
      [] m = "calculateStopTotals" -> tables["route_stops"]
      [] m = "calculateSystemTotals" -> tables["route_totals"]

\* the rows one month contributes to the output of m
Batch(m, df, month) ==
    CASE m = "calcMonthlyAverages" -> MonthlyAverages(df, month)
      [] m = "aggregateTrips" -> TripAggregates(df, month, split_tod)
      [] m = "calculateRouteTotals" -> RouteTotals(df, month, split_tod)
      [] m = "calculateStopTotals" -> StopTotals(df, month, split_tod)
      [] m = "calculateSystemTotals" -> SystemTotals(df, month, split_tod)

\* open the store, remove outkey, list the months of inkey (a KeyError when
\* inkey is not in the store)
BeginAggregate(m) ==
    /\ cpc = "idle"
    /\ apc = "idle"
    /\ tables' = [tables EXCEPT ![OutKey(m)] = <<>>]
    /\ IF InRows(m) = <<>>
       THEN apc' = "failed" /\ months' = <<>>
       ELSE apc' = m /\ months' = MonthsOf(InRows(m))
    /\ UNCHANGED <<cleanVars, split_tod, call, gtfsVars, driverVars>>

\* one pass of "for month in months": select, group, aggregate, append
AggregateMonth(m) ==
    /\ apc = m
    /\ months # <<>>
    /\ LET df == SelectMonth(InRows(m), Head(months))
       IN  tables' = [tables EXCEPT ![OutKey(m)] = @ \o Batch(m, df, Head(months))]
    /\ months' = Tail(months)
    /\ UNCHANGED <<cleanVars, apc, split_tod, call, gtfsVars, driverVars>>

\* the months are exhausted: store.close()
EndAggregate(m) ==
    /\ apc = m
    /\ months = <<>>
    /\ apc' = "idle"
    /\ UNCHANGED <<cleanVars, tables, months, split_tod, call, gtfsVars, driverVars>>

calcMonthlyAverages ==
    \/ BeginAggregate("calcMonthlyAverages")
    \/ AggregateMonth("calcMonthlyAverages")
    \/ EndAggregate("calcMonthlyAverages")

aggregateTrips ==
    \/ BeginAggregate("aggregateTrips")
    \/ AggregateMonth("aggregateTrips")
    \/ EndAggregate("aggregateTrips")

calculateRouteTotals ==
    \/ BeginAggregate("calculateRouteTotals")
    \/ AggregateMonth("calculateRouteTotals")
    \/ EndAggregate("calculateRouteTotals")

calculateStopTotals ==
    \/ BeginAggregate("calculateStopTotals")
    \/ AggregateMonth("calculateStopTotals")
    \/ EndAggregate("calculateStopTotals")

calculateSystemTotals ==
    \/ BeginAggregate("calculateSystemTotals")
    \/ AggregateMonth("calculateSystemTotals")
    \/ EndAggregate("calculateSystemTotals")

\* ----------------------------------------------------------- processFiles

\* schedule files a call is given
MaxFiles == 2

\* the service periods of the files, in order
RECURSIVE WorkOf(_)
WorkOf(infiles) ==
    IF infiles = <<>> THEN <<>>
    ELSE [k \in 1..Len(Feed(Head(infiles)).periods) |-> <<Head(infiles), k>>]
             \o WorkOf(Tail(infiles))

\* the keys a caller may name the table by; outstore.keys() lists a table by
\* its path, with the leading '/'
OutKeyNames == {"gtfs", "/gtfs"}

Listed(outkey) == gtfs # <<>> /\ outkey = "/gtfs"

\* open the store, remove outkey if outstore.keys() lists it, startIndex = 0
BeginProcessFiles ==
    /\ dataset = "gtfs"
    /\ gpc = "idle"
    /\ \E infiles \in SeqsUpTo(FeedNames, MaxFiles) \ {<<>>}, outkey \in OutKeyNames :
          /\ gtfs' = IF Listed(outkey) THEN <<>> ELSE gtfs
          /\ work' = WorkOf(infiles)
    /\ startIndex' = 0
    /\ gpc' = "running"
    /\ UNCHANGED <<cleanVars, aggVars, call, driverVars>>

\* one pass of "for period in servicePeriods": convert and append; an error
\* of getGTFSDataFrame raises out of the call
ProcessPeriod ==
    /\ gpc = "running"
    /\ work # <<>>
    /\ LET df == Frames[Head(work)[1]][Head(work)[2]][startIndex]
       IN  IF df.raised # ""
           THEN /\ gpc' = "failed"
                /\ UNCHANGED <<gtfs, work, startIndex>>
           ELSE /\ Len(gtfs) + Len(df.rows) <= MaxGtfsRows
                /\ gtfs' = gtfs \o df.rows
                /\ startIndex' = startIndex + Len(df.rows)
                /\ work' = Tail(work)
                /\ gpc' = gpc
    /\ UNCHANGED <<cleanVars, aggVars, call, driverVars>>

\* the files are exhausted: outstore.close()
EndProcessFiles ==
    /\ gpc = "running"
    /\ work = <<>>
    /\ gpc' = "idle"
    /\ UNCHANGED <<cleanVars, aggVars, call, gtfs, work, startIndex, driverVars>>

\* ------------------------------------------------------------- the driver

\* VALID STEPS-- list of allowable steps to run
VALID_STEPS == <<"clean", "expand", "aggregate", "report", "cleanClipper">>

ValidStepSet == {VALID_STEPS[i] : i \in 1..Len(VALID_STEPS)}

\* steps a command line may name
MaxArgs == 3

\* raw files the clean step converts (RAW_STP_FILES)
MaxRawFiles == 2

\* the words a command line is made of: the steps and a word that is none
Words == ValidStepSet \cup {"bogus"}

\* whether the first step named is a valid step
FirstStepValid(steps) == steps[1] \in ValidStepSet

\* whether every step named is a valid step
StepsValid(steps) == \A i \in 1..Len(steps) : steps[i] \in ValidStepSet

\* the test after the one of a step, in the order of the script
StepAfterSwapped(step) ==
    CASE step = "clean" -> "aggregate"
      [] step = "aggregate" -> "expand"
      [] step = "expand" -> "report"
      [] step = "report" -> "cleanClipper"
      [] step = "cleanClipper" -> "end"

\* the test after the one of a step, in the order of the script
StepAfter(step) ==
    CASE step = "clean" -> "expand"
      [] step = "expand" -> "aggregate"
      [] step = "aggregate" -> "report"
      [] step = "report" -> "cleanClipper"
      [] step = "cleanClipper" -> "end"

Requested(step) == \E i \in 1..Len(argv) : argv[i] = step

\* the checks of the command line: without a step, print USAGE and the
\* valid steps; with a step that is not valid, print the step and the valid
\* steps; either way sys.exit(2)
CheckSteps ==
    /\ dpc = "start"
    /\ IF Len(argv) < 1
       THEN dpc' = "usage" /\ exitcode' = <<2>>
       ELSE IF ~StepsValid(argv)
            THEN dpc' = "rejected" /\ exitcode' = <<2>>
            ELSE dpc' = "clean" /\ exitcode' = exitcode
    /\ UNCHANGED <<cleanVars, aggVars, call, gtfsVars, argv, started, finished,
                   filesLeft>>

\* "if step in STEPS_TO_RUN" of a step that was not named
SkipStep ==
    /\ dpc \in ValidStepSet
    /\ ~Requested(dpc)
    /\ dpc' = StepAfter(dpc)
    /\ UNCHANGED <<cleanVars, aggVars, call, gtfsVars, argv, started, finished,
                   exitcode, filesLeft>>

\* the clean step begins: SFMuniDataHelper(), readRouteEquiv, which returns
\* or raises
StartClean ==
    /\ dpc = "clean"
    /\ Requested("clean")
    /\ started' = Append(started, "clean")
    /\ \E raised \in BOOLEAN :
          IF raised
          THEN dpc' = "aborted" /\ exitcode' = <<1>> /\ filesLeft' = filesLeft
          ELSE dpc' = "cleaning" /\ exitcode' = exitcode /\ filesLeft' = MaxRawFiles
    /\ UNCHANGED <<cleanVars, aggVars, call, gtfsVars, argv, finished>>

\* "for infile in RAW_STP_FILES": processRawData(infile, CLEANED_OUTFILE)
\* opens the reader and the store
CallProcessRawData ==
    /\ dpc = "cleaning"
    /\ cpc = "idle"
    /\ filesLeft > 0
    /\ filesLeft' = filesLeft - 1
    /\ cpc' = "reading"
    /\ rowsWritten' = 0
    /\ UNCHANGED <<dataset, store, chunk, aggVars, call, gtfsVars, argv, dpc,
                   started, finished, exitcode>>

\* the reader of the file is exhausted: store.close(), and the call returns
ReturnProcessRawData ==
    /\ dpc = "cleaning"
    /\ cpc = "reading"
    /\ cpc' = "idle"
    /\ UNCHANGED <<dataset, store, rowsWritten, chunk, aggVars, call, gtfsVars,
                   driverVars>>

\* an error of processRawData is not caught: the script ends with a traceback
CleanRaises ==
    /\ dpc = "cleaning"
    /\ cpc = "failed"
    /\ dpc' = "aborted"
    /\ exitcode' = <<1>>
    /\ UNCHANGED <<cleanVars, aggVars, call, gtfsVars, argv, started, finished,
                   filesLeft>>

\* the files are exhausted: 'Finished cleaning SFMuni data in ...'
FinishClean ==
    /\ dpc = "cleaning"
    /\ cpc = "idle"
    /\ filesLeft = 0
    /\ finished' = Append(finished, "clean")
    /\ dpc' = StepAfter("clean")
    /\ UNCHANGED <<cleanVars, aggVars, call, gtfsVars, argv, started, exitcode,
                   filesLeft>>

\* one of the steps expand, aggregate, report, cleanClipper, named on the
\* command line: the calls of the step return, and the step prints that it
\* finished, or one of them raises, and the script ends with a traceback
RunStep ==
    /\ dpc \in ValidStepSet \ {"clean"}
    /\ Requested(dpc)
    /\ started' = Append(started, dpc)
    /\ \E raised \in BOOLEAN :
          IF raised
          THEN dpc' = "aborted" /\ exitcode' = <<1>> /\ finished' = finished
          ELSE /\ dpc' = StepAfter(dpc)
               /\ exitcode' = exitcode
               /\ finished' = Append(finished, dpc)
    /\ UNCHANGED <<cleanVars, aggVars, call, gtfsVars, argv, filesLeft>>

\* print 'Run complete!  Time for a pint!', and the script ends
RunComplete ==
    /\ dpc = "end"
    /\ dpc' = "complete"
    /\ exitcode' = <<0>>
    /\ UNCHANGED <<cleanVars, aggVars, call, gtfsVars, argv, started, finished,
                   filesLeft>>

\* ---------------------------------------------------------- specifications

InitGtfsIdle ==
    /\ gtfs = <<>>
    /\ gpc = "idle"
    /\ work = <<>>
    /\ startIndex = 0

InitAggIdle ==
    /\ tables = NoTables
    /\ apc = "idle"
    /\ months = <<>>

\* the driver script is not running
InitDriverIdle ==
    /\ argv = <<>>
    /\ dpc = "idle"
    /\ started = <<>>
    /\ finished = <<>>
    /\ exitcode = <<>>
    /\ filesLeft = 0

\* the cleaning step alone, over every family of raw rows
InitClean ==
    /\ dataset \in Datasets
    /\ store = <<>>
    /\ cpc = "idle"
    /\ rowsWritten = 0
    /\ chunk = <<>>
    /\ InitAggIdle
    /\ split_tod = FALSE
    /\ call = NoCall
    /\ InitGtfsIdle
    /\ InitDriverIdle

NextClean == OpenRawData \/ ProcessChunk \/ CloseRawData

SpecClean == InitClean /\ [][NextClean]_vars

\* cleaning followed by the aggregations, over the rows that differ in their
\* grouping keys
InitMuni ==
    /\ dataset = "keys"
    /\ store = <<>>
    /\ cpc = "idle"
    /\ rowsWritten = 0
    /\ chunk = <<>>
    /\ InitAggIdle
    /\ split_tod \in BOOLEAN
    /\ call = NoCall
    /\ InitGtfsIdle
    /\ InitDriverIdle

NextAggregate ==
    \/ calcMonthlyAverages
    \/ aggregateTrips
    \/ calculateRouteTotals
    \/ calculateStopTotals
    \/ calculateSystemTotals

NextMuni == NextClean \/ NextAggregate

SpecMuni == InitMuni /\ [][NextMuni]_vars

\* the aggregations alone, over a cleaned table that one chunk has filled
InitAggregate ==
    /\ dataset = "keys"
    /\ store \in {CleanChunk(ch) : ch \in Chunks("keys")} \ {<<>>}
    /\ cpc = "idle"
    /\ rowsWritten = 0
    /\ chunk = <<>>
    /\ InitAggIdle
    /\ split_tod \in BOOLEAN
    /\ call = NoCall
    /\ InitGtfsIdle
    /\ InitDriverIdle

\* a step of the loop of m as the loop's own variables show it: a pass of
\* "for month in months" takes the first month off, and after the last pass
\* the method closes the store and returns
LoopStep(m) ==
    /\ apc = m
    /\ \/ months # <<>> /\ months' = Tail(months) /\ apc' = apc
       \/ months = <<>> /\ months' = months /\ apc' = "idle"

\* a method that was called runs on: the loop and the close after it are
\* straight-line code of one thread, nothing makes them wait
SpecAggregateFair ==
    /\ InitAggregate
    /\ [][NextAggregate]_vars
    /\ \A m \in Methods : WF_<<apc, months>>(LoopStep(m))

\* the reader of schedule files
InitGTFS ==
    /\ dataset = "gtfs"
    /\ store = <<>>
    /\ cpc = "idle"
    /\ rowsWritten = 0
    /\ chunk = <<>>
    /\ InitAggIdle
    /\ split_tod = FALSE
    /\ call = NoCall
    /\ InitGtfsIdle
    /\ InitDriverIdle

NextGTFS == BeginProcessFiles \/ ProcessPeriod \/ EndProcessFiles

SpecGTFS == InitGTFS /\ [][NextGTFS]_vars

\* the driver script, run on a command line
InitDriver ==
    /\ dataset = "stp"
    /\ store = <<>>
    /\ cpc = "idle"
    /\ rowsWritten = 0
    /\ chunk = <<>>
    /\ InitAggIdle
    /\ split_tod = FALSE
    /\ call = NoCall
    /\ InitGtfsIdle
    /\ argv \in SeqsUpTo(Words, MaxArgs)
    /\ dpc = "start"
    /\ started = <<>>
    /\ finished = <<>>
    /\ exitcode = <<>>
    /\ filesLeft = 0

NextDriver ==
    \/ CheckSteps
    \/ SkipStep
    \/ StartClean
    \/ CallProcessRawData
    \/ ProcessChunk
    \/ ReturnProcessRawData
    \/ CleanRaises
    \/ FinishClean
    \/ RunStep
    \/ RunComplete

SpecDriver == InitDriver /\ [][NextDriver]_vars

\* every step that writes a table, on raw STP rows or on schedule files
Init == InitMuni \/ InitGTFS

Next == NextMuni \/ NextGTFS

Spec == Init /\ [][Next]_vars

\* the helper functions of the GTFS reader, each called on its own
InitCalls ==
    /\ dataset = "keys"
    /\ store = <<>>
    /\ cpc = "idle"
    /\ rowsWritten = 0
    /\ chunk = <<>>
    /\ InitAggIdle
    /\ split_tod = FALSE
    /\ call = NoCall
    /\ InitGtfsIdle
    /\ InitDriverIdle

NextCalls ==
    \/ CallGetWrapAroundTime
    \/ CallGetShapeLine
    \/ CallGetGTFSDataFrame
    \/ Return

SpecCalls == InitCalls /\ [][NextCalls]_vars

\* ------------------------------------------------- properties: cleaning

StoreRows == {store[i] : i \in 1..Len(store)}

\* C3: no two rows of the persisted cleaned table share the identity key
\* (DATE, ROUTE, PATTCODE, DIR, TRIP, SEQ), whatever chunks and files were
\* processed into the store.
C3_KeysUnique ==
    \A i, j \in 1..Len(store) : i # j => IndexKey(store[i]) # IndexKey(store[j])

\* the same record was appended by two chunks
C3_SameKeyTwice ==
    \E i, j \in 1..Len(store) : i < j /\ store[i] = store[j]

\* C5: every persisted row has DWELL = 0 whenever its EOL = 1 or its SEQ = 1.
C5_DwellZeroAtEnds ==
    \A row \in StoreRows : (row.EOL = 1 \/ row.SEQ = 1) => row.DWELL = 0

\* an end of line past the first stop and a first stop that is no end of line
\* are both in the store
C5_EndsPersisted ==
    /\ \E row \in StoreRows : row.EOL = 1 /\ row.SEQ # 1
    /\ \E row \in StoreRows : row.EOL = 0 /\ row.SEQ = 1

\* C6: every persisted row has LOAD_ARR = LOAD_DEP - ON + OFF; what is stored
\* for ON, OFF and LOAD_DEP is what the load on arrival was derived from.
C6_LoadBalance ==
    \A row \in StoreRows : row.LOAD_ARR = row.LOAD_DEP - row.ON + row.OFF

\* rows with more boardings than alightings and with fewer are in the store
C6_LoadsPersisted ==
    /\ \E row \in StoreRows : row.ON > row.OFF /\ row.LOAD_ARR < row.LOAD_DEP
    /\ \E row \in StoreRows : row.ON < row.OFF /\ row.LOAD_ARR > row.LOAD_DEP

\* the stamp is dated a day after the service date when its hour is before 3,
\* and on the service date otherwise
ServiceDayRule(ts, date) ==
    DayNumber(ts) = DayNumber(date) + (IF ts.hh < 3 THEN 1 ELSE 0)

\* C8: in every persisted row TIMESTOP, DOORCLOSE and PULLOUT, and at a time
\* point TIMESTOP_S and DOORCLOSE_S too, are dated one calendar day after DATE
\* when their hour is before 3 and on DATE when it is 3 or later.
C8_ServiceDay ==
    \A row \in StoreRows :
        /\ ServiceDayRule(row.TIMESTOP, row.DATE)
        /\ ServiceDayRule(row.DOORCLOSE, row.DATE)
        /\ ServiceDayRule(row.PULLOUT, row.DATE)
        /\ row.TIMEPOINT = 1 =>
              /\ ServiceDayRule(row.TIMESTOP_S, row.DATE)
              /\ ServiceDayRule(row.DOORCLOSE_S, row.DATE)

\* a time point scheduled before 3 am and served after it is in the store
C8_EarlySchedulePersisted ==
    \E row \in StoreRows :
        /\ row.TIMEPOINT = 1
        /\ row.TIMESTOP_S.hh < 3
        /\ row.TIMESTOP.hh >= 3

\* ---------------------------------------------- properties: aggregation

RowsOf(key) == {tables[key][i] : i \in 1..Len(tables[key])}

\* the route-stop rows of a route total's month, day of week and route
RouteStopsOfRoute(t) ==
    SelectSeq(tables["route_stops"],
              LAMBDA r : r.MONTH = t.MONTH /\ r.DOW = t.DOW /\ r.ROUTE = t.ROUTE)

\* the route-stop rows of a route total's group: the time period and the
\* direction as well
RouteStopsOfGroup(t) ==
    SelectSeq(RouteStopsOfRoute(t), LAMBDA r : r.TOD = t.TOD /\ r.DIR = t.DIR)

RECURSIVE Total(_)
\* the sum of a sequence of numbers, added left to right
Total(s) ==
    IF s = <<>> THEN <<0, 1>>
    ELSE LET a == Total(SubSeq(s, 1, Len(s) - 1))
             b == s[Len(s)]
         IN  Rat(a[1] * b[2] + b[1] * a[2], a[2] * b[2])

\* calculateRouteTotals has run over the route-stop table that is in the store
RouteTotalsDone == apc = "idle" /\ tables["route_totals"] # <<>>

\* C1 as stated: once calculateRouteTotals has run, for every month and day
\* of week the sum of ON over all route-stop rows of a route equals the ON of
\* the route's route-total row.
C1_RouteConservation ==
    RouteTotalsDone =>
        \A t \in RowsOf("route_totals") :
            t.ON = Total(Col(RouteStopsOfRoute(t), "ON"))

\* C1 as the code has it: a route total is kept for each direction of a route
\* (and each time period when they are kept separate); its ON is the sum of ON
\* over the route-stop rows of its month, day of week, (time period,) route
\* and direction, and every route-stop row is counted in one route total.
C1_GroupConservation ==
    RouteTotalsDone =>
        /\ \A t \in RowsOf("route_totals") :
              t.ON = Total(Col(RouteStopsOfGroup(t), "ON"))
        /\ \A r \in RowsOf("route_stops") :
              Cardinality({t \in RowsOf("route_totals") :
                              /\ t.MONTH = r.MONTH /\ t.DOW = r.DOW
                              /\ t.TOD = r.TOD /\ t.ROUTE = r.ROUTE
                              /\ t.DIR = r.DIR}) = 1

\* a route total that sums several stops, of a route with a total for the
\* other direction too
C1_RouteSummed ==
    /\ RouteTotalsDone
    /\ \E t, u \in RowsOf("route_totals") :
          /\ Len(RouteStopsOfGroup(t)) > 1
          /\ u.MONTH = t.MONTH /\ u.DOW = t.DOW /\ u.ROUTE = t.ROUTE
          /\ u.DIR # t.DIR

Levels == {"route_stops", "route_totals", "stop_totals", "system_totals"}

\* C2 as stated: every group of every level that carries both counts has
\* OBSTRIPS <= DAILYTRIPS.
C2_ObsAtMostDaily ==
    \A k \in Levels : \A r \in RowsOf(k) : r.OBSTRIPS <= r.DAILYTRIPS

\* C2 as the code has it: OBSTRIPS counts the observations of the month and
\* DAILYTRIPS the trips of a day, so every group of every level has
\* OBSTRIPS >= DAILYTRIPS.
C2_ObsAtLeastDaily ==
    \A k \in Levels : \A r \in RowsOf(k) : r.OBSTRIPS >= r.DAILYTRIPS

\* every level is in the store, and a system total counts more observations
\* than daily trips, and more than one daily trip
C2_LevelsFilled ==
    /\ \A k \in Levels : tables[k] # <<>>
    /\ \E r \in RowsOf("system_totals") :
          r.OBSTRIPS > r.DAILYTRIPS /\ r.DAILYTRIPS > 1

\* ----------------------------------------------------- properties: GTFS

WrapCalled == call.fn = "getWrapAroundTime"

\* C7: getWrapAroundTime(date, 'HH:MM:SS') returns date + 1 day at
\* (HH-24):MM:SS when HH >= 24, and date at HH:MM:SS otherwise.
C7_WrapAround ==
    WrapCalled =>
        LET hh   == IntOf(call.timeString[1])
            date == call.dateString
        IN  /\ ~call.raised
            /\ call.value[1].mi = IntOf(call.timeString[2])
            /\ call.value[1].ss = IntOf(call.timeString[3])
            /\ hh >= 24 =>
                  /\ DayNumber(call.value[1]) = DayNumber(date) + 1
                  /\ call.value[1].hh = hh - 24
            /\ hh < 24 =>
                  /\ DayNumber(call.value[1]) = DayNumber(date)
                  /\ call.value[1].hh = hh

\* service date 2013-10-09 with clock 25:15:00 has given 2013-10-10 01:15:00
C7_Example ==
    /\ WrapCalled
    /\ call.dateString = Date(2013, 10, 9)
    /\ call.timeString = <<<<2, 5>>, <<1, 5>>, <<0, 0>>>>
    /\ call.value = <<[y |-> 2013, m |-> 10, d |-> 10, hh |-> 1, mi |-> 15, ss |-> 0]>>

ShapeCalled == call.fn = "getShapeLine"

\* C10: for a trip whose shape reference is not in the schedule, getShapeLine
\* raises no error and returns the straight line through the projected stops
\* in stop-sequence order, whatever the number of stops.
C10_MissingShape ==
    (ShapeCalled /\ call.shape_id \notin DOMAIN Shapes) =>
        /\ call.raised = ""
        /\ call.value =
              [i \in 1..Len(call.stopTimeList) |->
                  <<3 * call.stopTimeList[i].stop.stop_lon,
                    4 * call.stopTimeList[i].stop.stop_lat>>]

\* a trip of two stops without a shape has got the segment between them
C10_TwoStops ==
    /\ ShapeCalled
    /\ call.shape_id \notin DOMAIN Shapes
    /\ Len(call.stopTimeList) = 2
    /\ call.raised = ""
    /\ Len(call.value) = 2

FrameReturned == call.fn = "getGTFSDataFrame" /\ call.raised = ""

\* the rows of the returned table
FrameRows == {call.value[i].row : i \in 1..Len(call.value)}

SameHeadwayGroup(a, b) ==
    /\ a.AGENCY_ID = b.AGENCY_ID /\ a.ROUTE_ID = b.ROUTE_ID /\ a.DIR = b.DIR
    /\ a.TRIP_HEADSIGN = b.TRIP_HEADSIGN /\ a.SEQ = b.SEQ

\* the rows of the group of r that leave before r, or with r
Before(r) ==
    {q \in FrameRows \ {r} :
        /\ SameHeadwayGroup(q, r)
        /\ EpochSeconds(q.DEPARTURE_TIME_S) <= EpochSeconds(r.DEPARTURE_TIME_S)}

\* C9: in the table of getGTFSDataFrame, among the rows that share
\* AGENCY_ID, ROUTE_ID, DIR, TRIP_HEADSIGN and SEQ, taken by departure, the
\* first has no HEADWAY_S and every later one has its departure less the
\* departure before it, in minutes.
C9_Headways ==
    FrameReturned =>
        \A r \in FrameRows :
            IF Before(r) = {}
            THEN r.HEADWAY_S = <<>>
            ELSE \E q \in Before(r) :
                    /\ \A o \in Before(r) :
                          EpochSeconds(o.DEPARTURE_TIME_S) <= EpochSeconds(q.DEPARTURE_TIME_S)
                    /\ r.HEADWAY_S =
                          <<RoundMinutes(EpochSeconds(r.DEPARTURE_TIME_S)
                                         - EpochSeconds(q.DEPARTURE_TIME_S))>>

\* departures at 08:00, 08:15 and 08:40 of a group have got no headway, 15.0
\* and 25.0 minutes
C9_Example ==
    /\ FrameReturned
    /\ \E a, b, c \in FrameRows :
          /\ SameHeadwayGroup(a, b) /\ SameHeadwayGroup(b, c)
          /\ a.DEPARTURE_TIME_S.hh = 8 /\ a.DEPARTURE_TIME_S.mi = 0
          /\ b.DEPARTURE_TIME_S.hh = 8 /\ b.DEPARTURE_TIME_S.mi = 15
          /\ c.DEPARTURE_TIME_S.hh = 8 /\ c.DEPARTURE_TIME_S.mi = 40
          /\ a.HEADWAY_S = <<>> /\ b.HEADWAY_S = <<1500>> /\ c.HEADWAY_S = <<2500>>

\* ------------------------------------------------- properties: reruns

\* the rows one run of aggregation m appends: the batches of the months of
\* its input, one after the other
SingleRun(m) ==
    LET ms == MonthsOf(InRows(m))
    IN  Concat([k \in 1..Len(ms) |->
                   Batch(m, SelectMonth(InRows(m), ms[k]), ms[k])])

\* C4: every processing step (processRawData, processFiles and each
\* aggregation method) removes its existing output table before it appends,
\* so that when a run of the step ends the output table holds the rows of
\* that run only.
C4_SingleRun ==
    /\ cpc = "idle" => Len(store) = rowsWritten
    /\ gpc = "idle" => Len(gtfs) = startIndex
    /\ \A m \in Methods :
          apc = m /\ months = <<>> => tables[OutKey(m)] = SingleRun(m)

\* processRawData has run twice over the same chunk and the store holds the
\* rows of both runs
C4_TwoRunsKept ==
    /\ cpc = "idle"
    /\ rowsWritten > 0
    /\ Len(store) = 2 * rowsWritten
    /\ SubSeq(store, 1, rowsWritten) = SubSeq(store, rowsWritten + 1, Len(store))

\* ---------------------------------------- properties: filters and errors

\* every persisted row is within the limits of the filters
StoreWithinFilters ==
    \A row \in StoreRows :
        /\ row.DIR \in {0, 1}
        /\ row.QSTOP < 9999
        /\ row.ROUTE > 0
        /\ row.QC201 <= 20
        /\ row.RDBRDNGS < 1000

\* the raw row is beyond the limit of one of the filters
FailsAFilter(r) ==
    \/ r.RDBRDNGS >= 1000
    \/ r.NEXTTRIP = 999
    \/ r.DIR >= 2
    \/ r.QC201 > 20
    \/ r.ROUTE <= 0
    \/ r.QSTOP >= 9999

\* C11 as stated: every persisted row satisfies DIR in {0,1}, QSTOP < 9999,
\* ROUTE > 0, QC201 <= 20 and RDBRDNGS < 1000, and a raw row that fails one
\* of the filters never causes an error: a call fails only on a row of the
\* chunk that fails none of them.
C11_FilteredNeverRaise ==
    /\ StoreWithinFilters
    /\ cpc = "failed" => \E i \in 1..Len(chunk) : ~FailsAFilter(chunk[i])

\* C11 amended: every persisted row is within the limits of the filters, and
\* a call fails only on a row that fails no filter, or on a row with a blank
\* SEQ that the RDBRDNGS and NEXTTRIP filters left in the chunk (the types
\* are forced before the later filters are applied).
C11_FiltersDrop ==
    /\ StoreWithinFilters
    /\ cpc = "failed" =>
          \E i \in 1..Len(chunk) :
              \/ ~FailsAFilter(chunk[i])
              \/ /\ chunk[i].RDBRDNGS < 1000
                 /\ chunk[i].NEXTTRIP # 999
                 /\ "SEQ" \in chunk[i].NA

\* a chunk of one row the filters keep and one they drop was read into an
\* empty store, and the kept row alone was written
C11_RowDropped ==
    /\ cpc = "reading"
    /\ Len(chunk) = 2
    /\ \E i, j \in 1..2 : FailsAFilter(chunk[i]) /\ ~FailsAFilter(chunk[j])
    /\ rowsWritten = 1
    /\ Len(store) = 1

\* ---------------------------------------------------------- properties: lines

\* the trips of the service period of the call in progress
TripsCalled ==
    {Feed(call.schedule).trips[k] : k \in
        {j \in 1..Len(Feed(call.schedule).trips) :
            Feed(call.schedule).trips[j].service_id = call.period}}

\* the places of the rows of a trip in the returned table
PlacesOf(trip) ==
    {i \in 1..Len(call.value) :
        call.value[i].row.TRIP_ID = Cleanup(trip.trip_id)}

C12_OneStopLine ==
    /\ FrameReturned
    /\ \E t \in TripsCalled : Len(t.stop_times) = 1 /\ PlacesOf(t) # {}

\* ---------------------------------------------------------- properties: periods

\* the seven time periods, by the code of their first minute
TodBands == {300, 600, 900, 1400, 1600, 1900, 2200}

\* C13: every persisted row has TOD in 300, 600, 900, 1400, 1600, 1900,
\* 2200, the one band its TRIP code falls in, and never the placeholder 9999.
C13_TodBanded ==
    \A r \in StoreRows :
        /\ r.TOD \in TodBands
        /\ r.TOD # 9999

\* C13, as the code bands the trips: a persisted row whose TRIP code is 300
\* or later has the one band that holds the code; a row whose TRIP code is
\* before 300 keeps 9999.
C13_TodFromThree ==
    \A r \in StoreRows :
        IF r.TRIP >= 300
        THEN /\ r.TOD \in TodBands
             /\ r.TOD <= r.TRIP
             /\ \A b \in TodBands : b <= r.TRIP => b <= r.TOD
        ELSE r.TOD = 9999

\* a trip of 02:30 is persisted
C13_NightTrip ==
    \E r \in StoreRows : r.TRIP = 230

\* ---------------------------------------------------------- properties: days

\* calcMonthlyAverages is at work: the cleaned table is as it was read
AveragingMonths == apc = "calcMonthlyAverages"

\* the places of the input rows of the group of an averaged row
GroupPlaces(a) ==
    {i \in 1..Len(store) :
        /\ store[i].MONTH = a.MONTH /\ store[i].DOW = a.DOW
        /\ store[i].ROUTE = a.ROUTE /\ store[i].PATTCODE = a.PATTCODE
        /\ store[i].DIR = a.DIR /\ store[i].TRIP = a.TRIP
        /\ store[i].SEQ = a.SEQ}

\* the places of the input rows of the month of an averaged row
MonthPlaces(a) == {i \in 1..Len(store) : store[i].MONTH = a.MONTH}

\* C14: in the output of calcMonthlyAverages, NUMDAYS of each group is the
\* number of distinct DATE values among the input rows of the group, and
\* OBSTRIPS is the number of input rows of the group.
C14_DaysOfGroup ==
    AveragingMonths =>
        \A a \in RowsOf("monthly") :
            /\ a.NUMDAYS = Cardinality({store[i].DATE : i \in GroupPlaces(a)})
            /\ a.OBSTRIPS = Cardinality(GroupPlaces(a))

\* C14, as the code counts: NUMDAYS of each group is the number of distinct
\* DATE values among all input rows of the month, and OBSTRIPS is the number
\* of input rows of the group.
C14_DaysOfMonth ==
    AveragingMonths =>
        \A a \in RowsOf("monthly") :
            /\ a.NUMDAYS = Cardinality({store[i].DATE : i \in MonthPlaces(a)})
            /\ a.OBSTRIPS = Cardinality(GroupPlaces(a))

\* a month of two days is averaged, with a group seen on one of them only
C14_GroupOfOneDay ==
    /\ AveragingMonths
    /\ \E a \in RowsOf("monthly") :
          /\ Cardinality({store[i].DATE : i \in GroupPlaces(a)}) = 1
          /\ Cardinality({store[i].DATE : i \in MonthPlaces(a)}) = 2

\* ---------------------------------------------------------- properties: services

\* the service period processFiles converts next
PeriodAtWork == Feed(Head(work)[1]).periods[Head(work)[2]]

\* a service id getGTFSDataFrame tells the day of week of: a number, or one
\* of WKDY, M-FSAT, SAT, SUN, SUNAB
Recognized(service_id) ==
    \/ service_id # <<>> /\ \A i \in 1..Len(service_id) : IsDigit(service_id[i])
    \/ service_id \in {<<"W", "K", "D", "Y">>, <<"M", "-", "F", "S", "A", "T">>,
                       <<"S", "A", "T">>, <<"S", "U", "N">>,
                       <<"S", "U", "N", "A", "B">>}

\* processFiles is about to convert a service period whose id is not recognized
UnknownServiceNext ==
    gpc = "running" /\ work # <<>> /\ ~Recognized(PeriodAtWork)

\* C15: a service id that is not recognized is fatal: the step of
\* processFiles that meets it raises and appends nothing, and after the error
\* no row of that period, of a later period or of a later file is appended.
C15_UnknownServiceFatal ==
    /\ [][UnknownServiceNext => gpc' = "failed" /\ gtfs' = gtfs /\ work' = work]_vars
    /\ [][gpc = "failed" => gpc' = "failed" /\ gtfs' = gtfs]_vars

\* processFiles has failed on a service id that is not recognized, with a
\* later period still to convert and the rows of an earlier file in the table
C15_FailedOnService ==
    /\ gpc = "failed"
    /\ ~Recognized(PeriodAtWork)
    /\ Len(work) > 1
    /\ gtfs # <<>>

\* ---------------------------------------------------------- properties: coercion

\* a row the coercion meets (it is left by the RDBRDNGS and NEXTTRIP
\* filters) whose SEQ, the column astype is applied to, is blank
FailsCoercion(r) ==
    /\ r.RDBRDNGS < 1000
    /\ r.NEXTTRIP # 999
    /\ "SEQ" \in r.NA

CoercionFails(ch) == \E i \in 1..Len(ch) : FailsCoercion(ch[i])

\* C16: a chunk with a row that fails the type coercion ends processRawData
\* with an error: no row of the chunk is appended, rows that convert
\* included, no later chunk is appended, and the chunks appended before stay.
C16_CoercionFatal ==
    /\ [][cpc = "reading" /\ cpc' # "idle" /\ CoercionFails(chunk')
             => cpc' = "failed" /\ store' = store /\ rowsWritten' = rowsWritten]_vars
    /\ [][cpc = "failed" => cpc' = "failed" /\ store' = store]_vars

\* the coercion has failed on a chunk with a row that converts and passes the
\* filters, after a chunk that was appended
C16_FailedAfterAppend ==
    /\ cpc = "failed"
    /\ CoercionFails(chunk)
    /\ \E i \in 1..Len(chunk) : ~FailsCoercion(chunk[i]) /\ ~FailsAFilter(chunk[i])
    /\ rowsWritten > 0
    /\ Len(store) >= rowsWritten

\* ---------------------------------------------------------- properties: driver

\* the command line names no step, or a step that is not one of clean,
\* expand, aggregate, report, cleanClipper
BadCommandLine ==
    \/ argv = <<>>
    \/ \E i \in 1..Len(argv) :
          argv[i] \notin {"clean", "expand", "aggregate", "report", "cleanClipper"}

Place(step) ==
    CASE step = "clean" -> 1
      [] step = "expand" -> 2
      [] step = "aggregate" -> 3
      [] step = "report" -> 4
      [] step = "cleanClipper" -> 5

InCommandLine(step) == \E i \in 1..Len(argv) : argv[i] = step

Done(step) == \E i \in 1..Len(finished) : finished[i] = step

\* the steps started are steps of the command line, in the fixed order and
\* each once, and every step of the command line before a started one finished
StartedInOrder ==
    /\ \A i \in 1..Len(started) : InCommandLine(started[i])
    /\ \A i, j \in 1..Len(started) : i < j => Place(started[i]) < Place(started[j])
    /\ \A i \in 1..Len(started) :
          \A t \in {"clean", "expand", "aggregate", "report", "cleanClipper"} :
              InCommandLine(t) /\ Place(t) < Place(started[i]) => Done(t)
    /\ \A i \in 1..Len(finished) : i <= Len(started) /\ finished[i] = started[i]

\* 'Run complete' is reported only when every step of the command line
\* started and finished; a step that started and did not finish is at work
\* or has ended the run
CompleteOnlyIfAllDone ==
    /\ dpc = "complete" =>
          /\ finished = started
          /\ \A t \in {"clean", "expand", "aggregate", "report", "cleanClipper"} :
                InCommandLine(t) => Done(t)
    /\ Len(finished) < Len(started) => dpc \in {"cleaning", "aborted"}
    /\ dpc = "aborted" => Len(finished) < Len(started) /\ exitcode # <<0>>

\* C18: the driver runs the steps of the command line in the order clean,
\* expand, aggregate, report, cleanClipper, whatever the order of the words,
\* each at most once, a step only when the steps before it finished; an error
\* in a step ends the run: no later step starts and 'Run complete' is never
\* reported.
C18_StepsInOrder ==
    /\ [](StartedInOrder /\ CompleteOnlyIfAllDone)
    /\ [][dpc = "aborted" => dpc' = "aborted" /\ started' = started]_vars
    /\ [][dpc = "cleaning" /\ cpc = "failed"
             => dpc' \in {"cleaning", "aborted"} /\ started' = started
                /\ finished' = finished]_vars

\* a run of two steps, named in another order and one of them twice, completed
C18_ThreeStepsCompleted ==
    /\ dpc = "complete"
    /\ argv = <<"report", "clean", "report">>
    /\ finished = <<"clean", "report">>
    /\ store # <<>>

\* the clean step failed in processRawData and ended a run that named later
\* steps
C18_AbortedInClean ==
    /\ dpc = "aborted"
    /\ cpc = "failed"
    /\ started = <<"clean">>
    /\ InCommandLine("expand")

\* ---------------------------------------------------------- properties: months

\* the MONTH values of the rows of a table
MonthSet(rows) == {rows[i].MONTH : i \in 1..Len(rows)}

\* the months of the input of m in ascending order are the months done, whose
\* rows the output holds month after month, followed by the months to do
LoopOverMonths(m) ==
    LET out  == tables[OutKey(m)]
        all  == MonthsOf(InRows(m))
        done == Len(all) - Len(months)
    IN  /\ done >= 0
        /\ months = SubSeq(all, done + 1, Len(all))
        /\ \A i, j \in 1..Len(all) : i < j => DayNumber(all[i]) < DayNumber(all[j])
        /\ MonthSet(out) = {all[i] : i \in 1..done}
        /\ \A i, j \in 1..Len(out) :
              i < j => DayNumber(out[i].MONTH) <= DayNumber(out[j].MONTH)

\* a step of m that writes appends the rows of the first month to do, at
\* least one, and takes the month off the list
OneBatchPerMonth(m) ==
    apc = m /\ tables' # tables =>
        /\ months # <<>>
        /\ months' = Tail(months)
        /\ \A k \in OutKeys \ {OutKey(m)} : tables'[k] = tables[k]
        /\ Len(tables'[OutKey(m)]) > Len(tables[OutKey(m)])
        /\ SubSeq(tables'[OutKey(m)], 1, Len(tables[OutKey(m)])) = tables[OutKey(m)]
        /\ \A i \in (Len(tables[OutKey(m)]) + 1)..Len(tables'[OutKey(m)]) :
              tables'[OutKey(m)][i].MONTH = Head(months)

\* m ends with no month left and the months of the input in the output
EndsWithAllMonths(m) ==
    apc = m /\ apc' # m =>
        /\ apc' = "idle"
        /\ months = <<>>
        /\ MonthSet(tables'[OutKey(m)]) = MonthSet(InRows(m))

\* C19: each aggregation is a loop over the months of its input that ends:
\* it takes the distinct months in ascending order, appends one batch of rows
\* for each, the month once, and closes the store when no month is left; the
\* MONTH values of the output are then those of the input.
C19_MonthLoopEnds ==
    /\ [](\A m \in Methods : apc = m => LoopOverMonths(m))
    /\ [][\A m \in Methods : OneBatchPerMonth(m) /\ EndsWithAllMonths(m)]_vars
    /\ \A m \in Methods : (apc = m) ~> (apc = "idle")

\* the trips of two months were aggregated, month after month
C19_TwoMonthsDone ==
    /\ apc = "aggregateTrips"
    /\ months = <<>>
    /\ Cardinality(MonthSet(tables["route_stops"])) = 2
    /\ MonthSet(tables["route_stops"]) = MonthSet(tables["monthly"])

\* ---------------------------------------------------------- properties: headways

\* the minutes since midnight of an HHMM code
Minutes(code) == 60 * (code \div 100) + (code % 100)

\* C20: the HEADWAY of a persisted row is minutes(TRIP) - minutes(LASTTRIP)
\* when there is a trip before (LASTTRIP < 9999); when there is none it is
\* minutes(NEXTTRIP) - minutes(TRIP), NEXTTRIP being the code of a trip.
C20_HeadwayOfTrips ==
    \A r \in StoreRows :
        IF r.LASTTRIP < 9999
        THEN r.HEADWAY = 100 * (Minutes(r.TRIP) - Minutes(r.LASTTRIP))
        ELSE /\ r.NEXTTRIP < 9999
             /\ r.HEADWAY = 100 * (Minutes(r.NEXTTRIP) - Minutes(r.TRIP))

\* C20, as the code computes: without a trip before, HEADWAY is
\* minutes(NEXTTRIP) - minutes(TRIP) whatever NEXTTRIP holds, 9999 included.
C20_HeadwayOfCodes ==
    \A r \in StoreRows :
        IF r.LASTTRIP < 9999
        THEN r.HEADWAY = 100 * (Minutes(r.TRIP) - Minutes(r.LASTTRIP))
        ELSE r.HEADWAY = 100 * (Minutes(r.NEXTTRIP) - Minutes(r.TRIP))

\* the one trip of a day, leaving at 12:00, is persisted with a headway of
\* 5319 minutes
C20_LoneTrip ==
    \E r \in StoreRows :
        /\ r.TRIP = 1200 /\ r.LASTTRIP = 9999 /\ r.NEXTTRIP = 9999
        /\ r.HEADWAY = 531900

\* ---------------------------------------------------------- properties: time points

\* the persisted row has the identity key of the raw row
SameKey(r, row) ==
    /\ ParseDate(ZeroFill(r.DATE_INT, 6)) = <<row.DATE>>
    /\ row.ROUTE = r.ROUTE /\ row.PATTCODE = r.PATTCODE /\ row.DIR = r.DIR
    /\ row.TRIP = r.TRIP /\ row.SEQ = r.SEQ

\* the rows of the chunk read last
ChunkRows == {chunk[i] : i \in 1..Len(chunk)}

AbsDev(d) == IF d < 0 THEN 0 - d ELSE d

\* C22: at a time point ONTIME2 is 1 exactly when the arrival is within 2
\* minutes of the scheduled TIMESTOP and ONTIME10 is 1 exactly when it is
\* within 10 minutes, the vehicle being early or late; otherwise the flag is 0.
C22_OnTimeWithin ==
    \A row \in StoreRows :
        row.TIMEPOINT = 1 =>
            /\ row.ONTIME2 = (IF AbsDev(row.TIMESTOP_DEV[1]) < 200 THEN <<1>> ELSE <<0>>)
            /\ row.ONTIME10 = (IF AbsDev(row.TIMESTOP_DEV[1]) < 1000 THEN <<1>> ELSE <<0>>)

\* C22, as the code computes: the flag is 1 exactly when the deviation is
\* below the limit, however early the vehicle is.
C22_OnTimeBelow ==
    \A row \in StoreRows :
        row.TIMEPOINT = 1 =>
            /\ row.ONTIME2 = (IF row.TIMESTOP_DEV[1] < 200 THEN <<1>> ELSE <<0>>)
            /\ row.ONTIME10 = (IF row.TIMESTOP_DEV[1] < 1000 THEN <<1>> ELSE <<0>>)

\* a time point served half an hour early is persisted as on time at both
\* limits
C22_HalfHourEarly ==
    \E row \in StoreRows :
        /\ row.TIMEPOINT = 1 /\ row.TIMESTOP_DEV = <<-3000>>
        /\ row.ONTIME2 = <<1>> /\ row.ONTIME10 = <<1>>

\* ---------------------------------------------------------- properties: ends of line

\* whether the text holds the pattern somewhere
Contains(s, pat) ==
    \E i \in 1..(Len(s) - Len(pat) + 1) : SubSeq(s, i, i + Len(pat) - 1) = pat

\* C23: the EOL flag of a persisted row is 1 if its stop name contains the
\* end-of-line marker '- EOL' and 0 otherwise, so EOL is 0 or 1 for any name.
C23_EolIsFlag ==
    \A row \in StoreRows :
        /\ row.EOL = (IF Contains(row.STOPNAME, EolMarker) THEN 1 ELSE 0)
        /\ row.EOL \in {0, 1}

\* C23, as the code computes: EOL is the number of markers in the stop name.
C23_EolCounts ==
    \A row \in StoreRows :
        /\ row.EOL = CountSub(row.STOPNAME, EolMarker)
        /\ row.EOL > 0 <=> Contains(row.STOPNAME, EolMarker)

\* a stop whose name holds the marker twice is persisted with EOL = 2 and
\* with its recorded dwell
C23_TwoMarkers ==
    \E row \in StoreRows :
        /\ row.STOPNAME = Eol2Name
        /\ row.EOL = 2
        /\ row.SEQ # 1 /\ row.DWELL # 0

\* ---------------------------------------------------------- properties: minutes of 60

\* a schedule code after the wrap at 2400
Wrapped(t) == IF t >= 2400 THEN t - 2400 ELSE t

\* the rows of the chunk read last that are kept, are time points and whose
\* schedule code has 60 in its minutes
SixtyRows ==
    {r \in ChunkRows :
        /\ PassesFilters(r)
        /\ r.TIMESTOP_S_INT < 9999
        /\ Wrapped(r.TIMESTOP_S_INT) % 100 = 60}

\* the row is persisted with its schedule time at the full hour after hour hh
RolledForward(r, hh) ==
    \E row \in StoreRows :
        /\ SameKey(r, row)
        /\ row.TIMESTOP_S.hh = hh + 1 /\ row.TIMESTOP_S.mi = 0
        /\ row.TIMESTOP_S.hh \in 0..23 /\ row.TIMESTOP_S.mi \in 0..59

\* C24: at a time point a schedule code HH60 (after the wrap at 2400) is
\* rolled forward by 40 to (HH+1)00 before parsing, and for every such input
\* the result parses as a clock time with hour in 0..23 and minute in 0..59:
\* the pass does not raise and the row is persisted at (HH+1):00.
C24_SixtyRolls ==
    \A r \in SixtyRows :
        /\ cpc # "failed"
        /\ RolledForward(r, Wrapped(r.TIMESTOP_S_INT) \div 100)

\* C24, as the code computes: a code HH60 with HH below 23 is persisted at
\* (HH+1):00 when the pass does not raise; the code 2360 becomes 2400, which
\* does not parse, and the pass raises.
C24_SixtyRollsBelow23 ==
    \A r \in SixtyRows :
        IF Wrapped(r.TIMESTOP_S_INT) \div 100 < 23
        THEN cpc # "failed" => RolledForward(r, Wrapped(r.TIMESTOP_S_INT) \div 100)
        ELSE cpc = "failed"

\* a chunk of the one time point scheduled at 2360 was read and the pass
\* raised
C24_Raised2360 ==
    /\ cpc = "failed"
    /\ Len(chunk) = 1
    /\ chunk[1].TIMESTOP_S_INT = 2360
    /\ chunk[1] \in SixtyRows

\* a time point scheduled at 1160 is persisted at 12:00
C24_Rolled1160 ==
    \E r \in SixtyRows : r.TIMESTOP_S_INT = 1160 /\ RolledForward(r, 11)

\* ---------------------------------------------------------- properties: fares

\* the fare attributes of the schedule that have a rule for the route, by place
FaresOfRoute(schedule, route_id) ==
    {i \in 1..Len(schedule.fares) :
        \E j \in 1..Len(schedule.fares[i].rules) :
            schedule.fares[i].rules[j] = route_id}

\* the price of the first fare rule of the route, 0 without one
FirstFare(schedule, route_id) ==
    LET is == FaresOfRoute(schedule, route_id)
    IN  IF is = {} THEN 0
        ELSE schedule.fares[CHOOSE i \in is : \A k \in is : i <= k].price

\* the price of the last fare rule of the route, 0 without one
LastFare(schedule, route_id) ==
    LET is == FaresOfRoute(schedule, route_id)
    IN  IF is = {} THEN 0
        ELSE schedule.fares[CHOOSE i \in is : \A k \in is : i >= k].price

\* C25: the fare of a trip in the table getGTFSDataFrame returns is the price
\* of the first fare rule (fare attributes, then their rules, in order) whose
\* route_id is the trip's route, and 0 when no rule matches.
C25_FirstFare ==
    FrameReturned =>
        \A trip \in TripsCalled : \A i \in PlacesOf(trip) :
            call.value[i].row.FARE = FirstFare(Feed(call.schedule), trip.route_id)

\* C25, as the code computes: the fare is the price of the last matching rule.
C25_LastFare ==
    FrameReturned =>
        \A trip \in TripsCalled : \A i \in PlacesOf(trip) :
            call.value[i].row.FARE = LastFare(Feed(call.schedule), trip.route_id)

\* the Sunday table of the weekend schedule is returned: route 14 has a rule
\* under the fare of 2 and another under the fare of 5, and its trip costs 5
C25_LaterRuleWins ==
    /\ FrameReturned
    /\ call.schedule = "weekend"
    /\ \E trip \in TripsCalled :
          /\ trip.route_id = <<"1", "4">>
          /\ FirstFare(Feed("weekend"), trip.route_id) = 2
          /\ \E i \in PlacesOf(trip) : call.value[i].row.FARE = 5

\* ---------------------------------------------------------- properties: schedule times

\* the place in the stop-time list of the trip of the stop the row is about
StopPlace(trip, row) ==
    CHOOSE i \in 1..Len(trip.stop_times) : trip.stop_times[i].stop_sequence = row.SEQ

\* the rows of the returned table about the stop at place i of the trip
StopRowsAt(trip, i) ==
    {call.value[p].row : p \in
        {q \in PlacesOf(trip) :
            call.value[q].row.SEQ = trip.stop_times[i].stop_sequence}}

\* minutes between two scheduled times, rounded to hundredths, never below 0
ClampedMinutes(later, earlier) ==
    LET seconds == EpochSeconds(later) - EpochSeconds(earlier)
    IN  IF seconds <= 0 THEN 0 ELSE RoundMinutes(seconds)

\* C26: in every row getGTFSDataFrame builds, DWELL_S is 0 at the start and
\* at the end of the line; RUNTIME_S is 0 at the start of the line and
\* otherwise max(0, arrival - departure from the stop before of the same
\* trip) in minutes, so never negative; TOTTIME_S = RUNTIME_S + DWELL_S.
C26_ScheduleTimes ==
    FrameReturned =>
        \A trip \in TripsCalled : \A p \in PlacesOf(trip) :
            LET row == call.value[p].row
                i   == StopPlace(trip, row)
            IN  /\ (row.SOL = 1 \/ row.EOL = 1) => row.DWELL_S = 0
                /\ row.RUNTIME_S >= 0
                /\ row.SOL = 1 <=> i = 1
                /\ IF i = 1 THEN row.RUNTIME_S = 0
                   ELSE \A before \in StopRowsAt(trip, i - 1) :
                           row.RUNTIME_S =
                               ClampedMinutes(row.ARRIVAL_TIME_S, before.DEPARTURE_TIME_S)
                /\ row.TOTTIME_S = row.RUNTIME_S + row.DWELL_S

\* the table of the noisy schedule is returned: its second stop, reached a
\* minute before the first is left, has a run time of 0, its last stop one of
\* 11 minutes, and a stop between has a dwell
C26_ClockNoise ==
    /\ FrameReturned
    /\ call.schedule = "noisy"
    /\ \E r \in FrameRows :
          /\ r.SOL = 0 /\ r.SEQ = 2 /\ r.RUNTIME_S = 0 /\ r.DWELL_S = 50
          /\ r.TOTTIME_S = 50
    /\ \E r \in FrameRows : r.EOL = 1 /\ r.SEQ = 4 /\ r.RUNTIME_S = 1100 /\ r.DWELL_S = 0

\* ---------------------------------------------------------- properties: index

\* the rows of the table are in the order of the index columns (agency,
\* route, direction, headsign, trip, sequence) and indexed from start on
SortedAndIndexedFrom(rows, start) ==
    /\ \A i \in 1..Len(rows) : rows[i].index = start + i - 1
    /\ \A i \in 1..(Len(rows) - 1) :
          ~LexLess(IndexOrder(rows[i + 1].row), IndexOrder(rows[i].row))

\* C27: getGTFSDataFrame returns its rows sorted by (agency, route,
\* direction, headsign, trip, sequence) and indexed startIndex ..
\* startIndex+len-1; after processFiles has appended any sequence of service
\* periods from any list of schedule files, the index values of the persisted
\* table are exactly 0..N-1, contiguous and without repeats, in append order.
C27_IndexContiguous ==
    /\ FrameReturned => SortedAndIndexedFrom(call.value, call.startIndex)
    /\ \A i \in 1..Len(gtfs) : gtfs[i].index = i - 1

\* C27, as the code computes: the rows a run of processFiles has appended so
\* far are indexed 0 .. startIndex-1 in append order, after whatever rows the
\* table held when the run began.
C27_IndexOfRun ==
    /\ FrameReturned => SortedAndIndexedFrom(call.value, call.startIndex)
    /\ gpc # "idle" =>
          /\ startIndex <= Len(gtfs)
          /\ \A i \in 1..startIndex :
                gtfs[Len(gtfs) - startIndex + i].index = i - 1

\* processFiles has run twice over the same files with an outkey that
\* outstore.keys() does not list, and the index of the table starts twice at 0
C27_RerunRepeats ==
    /\ gpc = "idle"
    /\ startIndex > 0
    /\ Len(gtfs) = 2 * startIndex
    /\ gtfs[1].index = 0 /\ gtfs[startIndex + 1].index = 0
    /\ SubSeq(gtfs, 1, startIndex) = SubSeq(gtfs, startIndex + 1, Len(gtfs))

\* ---------------------------------------------------------- properties: reducers

\* the mean of a sequence of numbers
Average(s) == LET t == Total(s) IN Rat(t[1], t[2] * Len(s))

\* the mean of the numbers of a column that may hold NaN; NaN without one
AverageOfKnown(s) ==
    LET known == SelectSeq(s, LAMBDA x : x # <<>>)
    IN  IF known = <<>> THEN <<>>
        ELSE <<Average([i \in 1..Len(known) |-> known[i][1]])>>

\* C28: in each group of the route totals the flow measures (ON, DWELL, ...)
\* are the sum over the route-stop rows of the group, the rate-like measures
\* (HEADWAY, TIMESTOP_DEV, ...) are the mean over them, and identity fields
\* take the first value.
C28_RouteReducers ==
    RouteTotalsDone =>
        \A t \in RowsOf("route_totals") :
            LET g == RouteStopsOfGroup(t)
            IN  /\ t.ON = Total(Col(g, "ON"))
                /\ t.DWELL = Total(Col(g, "DWELL"))
                /\ t.HEADWAY = Average(Col(g, "HEADWAY"))
                /\ t.TIMESTOP_DEV = AverageOfKnown(Col(g, "TIMESTOP_DEV"))

\* C28, as the code has it: the flow measures are summed and the schedule
\* deviation is averaged over the route-stop rows of the group, and HEADWAY,
\* listed with the route attributes, takes the value of the first row.
C28_HeadwayFirst ==
    RouteTotalsDone =>
        \A t \in RowsOf("route_totals") :
            LET g == RouteStopsOfGroup(t)
            IN  /\ t.ON = Total(Col(g, "ON"))
                /\ t.DWELL = Total(Col(g, "DWELL"))
                /\ t.HEADWAY = g[1].HEADWAY
                /\ t.TIMESTOP_DEV = AverageOfKnown(Col(g, "TIMESTOP_DEV"))

\* a route total over two stops whose headways and whose deviations differ:
\* its HEADWAY is not the mean, its TIMESTOP_DEV is neither stop's
C28_TwoStopsDiffer ==
    /\ RouteTotalsDone
    /\ \E t \in RowsOf("route_totals") :
          LET g == RouteStopsOfGroup(t)
          IN  /\ Len(g) = 2
              /\ g[1].HEADWAY # g[2].HEADWAY
              /\ t.HEADWAY # Average(Col(g, "HEADWAY"))
              /\ g[1].TIMESTOP_DEV # <<>> /\ g[2].TIMESTOP_DEV # <<>>
              /\ t.TIMESTOP_DEV \notin {g[1].TIMESTOP_DEV, g[2].TIMESTOP_DEV}

\* ---------------------------------------------------------- properties: time periods apart

\* the tables of the five aggregations
AggregatedTables ==
    {"monthly", "route_stops", "route_totals", "stop_totals", "system_totals"}

\* the route-stop rows a monthly row is counted in
RouteStopsOfTripStop(a) ==
    {t \in RowsOf("route_stops") :
        /\ t.MONTH = a.MONTH /\ t.DOW = a.DOW /\ t.ROUTE = a.ROUTE
        /\ t.PATTCODE = a.PATTCODE /\ t.DIR = a.DIR /\ t.SEQ = a.SEQ}

\* aggregateTrips has run over the monthly table that is in the store
RouteStopsDone == apc = "idle" /\ tables["route_stops"] # <<>>

\* C29: split_tod controls the grouping key of calcMonthlyAverages,
\* aggregateTrips, calculateRouteTotals, calculateStopTotals and
\* calculateSystemTotals: enabled, TOD is part of the key and a key of the
\* output; disabled, the rows are grouped without TOD and the output has no
\* TOD key.
C29_SplitAtEveryLevel ==
    \A k \in AggregatedTables : \A r \in RowsOf(k) :
        IF split_tod THEN r.TOD # <<>> ELSE r.TOD = <<>>

\* C29, as the code has it: the four aggregations after calcMonthlyAverages
\* keep TOD as a key exactly when split_tod is enabled, and then a trip-stop
\* is counted in the one route-stop row of its time period; disabled, it is
\* counted in the one route-stop row of its day of week. calcMonthlyAverages
\* groups by trip and keeps TOD as a column whatever split_tod says.
C29_SplitAfterMonthly ==
    /\ \A k \in AggregatedTables \ {"monthly"} : \A r \in RowsOf(k) :
          IF split_tod THEN r.TOD # <<>> ELSE r.TOD = <<>>
    /\ \A a \in RowsOf("monthly") : a.TOD # <<>>
    /\ RouteStopsDone =>
          \A a \in RowsOf("monthly") :
              /\ \A t \in RouteStopsOfTripStop(a) : split_tod => t.TOD # <<>>
              /\ Cardinality({t \in RouteStopsOfTripStop(a) :
                                 split_tod => t.TOD = a.TOD}) = 1

\* with split_tod disabled the monthly averages still carry TOD, one row for
\* each trip of a stop, and the route-stops made from them carry none
C29_MonthlyKeepsPeriods ==
    /\ ~split_tod
    /\ RouteStopsDone
    /\ \E a, b \in RowsOf("monthly") :
          /\ a.TOD # <<>> /\ b.TOD # <<>> /\ a.TOD # b.TOD
          /\ RouteStopsOfTripStop(a) = RouteStopsOfTripStop(b)
          /\ \A t \in RouteStopsOfTripStop(a) : t.TOD = <<>>

\* ---------------------------------------------------------- properties: order of the service day

\* the raw clock columns and the timestamps made of them
ClockColumns ==
    {<<"TIMESTOP_INT", "TIMESTOP">>, <<"DOORCLOSE_INT", "DOORCLOSE">>,
     <<"PULLOUT_INT", "PULLOUT">>}

\* two rows of the chunk read last, recorded on the same DATE, with the rows
\* they are persisted as
SameDayPairs ==
    {p \in (ChunkRows \X StoreRows) \X (ChunkRows \X StoreRows) :
        /\ SameKey(p[1][1], p[1][2])
        /\ SameKey(p[2][1], p[2][2])
        /\ p[1][1].DATE_INT = p[2][1].DATE_INT}

\* C30: normalization keeps the order of the service day: of two raw arrival
\* (or door-close, or pullout) clock values a <= b recorded on the same DATE,
\* anywhere in the encodable range, 240000 and later included, the timestamp
\* of a is not later than the timestamp of b.
C30_OrderKept ==
    \A p \in SameDayPairs : \A c \in ClockColumns :
        p[1][1][c[1]] <= p[2][1][c[1]] =>
            ~TsLess(p[2][2][c[2]], p[1][2][c[2]])

\* the clock value lies between 3:00:00 and 26:59:59
InServiceDay(t) == t >= 30000 /\ t <= 265959

\* C30, as the code computes: the order is kept among the clock values from
\* 030000 to 265959; a value before 030000 is put on the next day, after
\* every later value of its DATE, and a value from 270000 on is put on DATE
\* itself, before the values from 240000 on.
C30_OrderKeptInServiceDay ==
    \A p \in SameDayPairs : \A c \in ClockColumns :
        /\ InServiceDay(p[1][1][c[1]]) /\ InServiceDay(p[2][1][c[1]])
        /\ p[1][1][c[1]] <= p[2][1][c[1]]
        => ~TsLess(p[2][2][c[2]], p[1][2][c[2]])

\* a chunk of two stops of one DATE is persisted: the doors close at 240010
\* at one and at 270010 at the other, and the later door close is stamped
\* before the earlier one
C30_LaterStampedEarlier ==
    \E p \in SameDayPairs :
        /\ p[1][1].DOORCLOSE_INT = 240010 /\ p[2][1].DOORCLOSE_INT = 270010
        /\ TsLess(p[2][2].DOORCLOSE, p[1][2].DOORCLOSE)
        /\ p[2][2].DOORCLOSE.hh = 3 /\ p[2][2].DOORCLOSE.d = p[2][2].DATE.d

============================================================================
